---- MODULE Spec2Model ----
(***************************************************************************)
(* Model of the Lorl SDK (src/js/library.js, lines 55-496): the event      *)
(* emitter, the WebSocket connection manager (_openWS, connect,            *)
(* disconnect), the message dispatcher (_handleMessage), the lobby API     *)
(* (createLobby, joinLobby, leaveLobby, listLobbies) and the platform init *)
(* hook (_init).                                                           *)
(*                                                                         *)
(* One step of the model is one task of the JavaScript event loop: a call  *)
(* of the public API, or one WebSocket event or timer callback together    *)
(* with the promise continuations (microtasks) it makes runnable.  The     *)
(* continuation of an `await _openWS()` that resolved without waiting      *)
(* (socket already open) runs at the end of the calling task; further API  *)
(* calls of that task may come first, socket events and timers may not.    *)
(*                                                                         *)
(* JavaScript values: null/undefined of an object-valued variable is the   *)
(* empty sequence and a present value v the sequence <<v>>; null and       *)
(* undefined strings are the strings "null" and "undefined".  An object    *)
(* used as a map (_players) is the sequence of its [key, val] properties   *)
(* in property (insertion) order.                                          *)
(***************************************************************************)
EXTENDS Integers, Sequences, FiniteSets, TLC

VARIABLES
  ws,         \* _ws: 0 (null) or the id of the current socket
  socks,      \* the WebSocket objects created so far, by id
  connected,  \* _connected
  playerId,   \* _playerId
  username,   \* _username
  gameId,     \* _gameId
  roomId,     \* _roomId
  players,    \* _players
  lobbyInfo,  \* _lobbyInfo
  isHost,     \* _isHost
  handlers,   \* _handlers: event -> list of subscribed handlers
  calls,      \* the createLobby / joinLobby / listLobbies calls made so far
  emitted,    \* the events published by the last step, in order
  sent,       \* the frames written to a socket by the last step, in order
  last,       \* the last step: the operation or callback that ran, the
              \* promises it settled, the handlers it invoked
  hist,       \* state_update frames of one player received in a row (SpecMerge)
  boot        \* _init: the path it took, the reactions it attached to the
              \* promise of its lobby call, the 'ready' events published so far

vars == <<ws, socks, connected, playerId, username, gameId, roomId, players,
          lobbyInfo, isHost, handlers, calls, emitted, sent, last, hist, boot>>

----------------------------------------------------------------------------
(* Bounds *)

MaxSockets == 2     \* WebSocket objects created in one run
MaxCalls   == 2     \* createLobby / joinLobby / listLobbies calls in one run
MaxUpdates == 2     \* state_update frames received in a row for one player
MaxHandlers == 2    \* handlers the embedding game has subscribed to one event

SockIds == 1..MaxSockets
CallIds == 1..MaxCalls

----------------------------------------------------------------------------
(* Values *)

Null  == "null"
Undef == "undefined"
None  == <<>>                  \* null / undefined object
Some(v) == <<v>>
EmptyObj == <<>>               \* {}
EmptyList == <<>>              \* []

GenIds == {"p_me"}             \* 'p_' + Math.random()...: ids this client may draw
PIds   == {"p_me", "p_ann"}    \* player ids on the wire
Names  == {"Ann"}
Keys   == {"x", "y"}
Vals   == {"1", "2"}

\* data objects: a function from some of the keys to values
DataOver(K, V) == UNION {[D -> V] : D \in SUBSET K}

\* {...a, ...b}: shallow merge, later keys override; spreading undefined adds nothing
Spread(a, b) ==
  [k \in (DOMAIN a) \cup (DOMAIN b) |-> IF k \in DOMAIN b THEN b[k] ELSE a[k]]

\* x || {} for an optional object
OrEmpty(o) == IF o = None THEN EmptyObj ELSE o[1]

----------------------------------------------------------------------------
(* Objects used as maps: _players *)

RECURSIVE HasKey(_, _)
HasKey(obj, k) ==
  IF obj = <<>> THEN FALSE
  ELSE IF Head(obj).key = k THEN TRUE ELSE HasKey(Tail(obj), k)

RECURSIVE Get(_, _)
\* obj[k], None when absent
Get(obj, k) ==
  IF obj = <<>> THEN None
  ELSE IF Head(obj).key = k THEN Some(Head(obj).val) ELSE Get(Tail(obj), k)

\* obj[k] = v: an existing property keeps its place, a new one goes last
Put(obj, k, v) ==
  IF HasKey(obj, k)
  THEN [i \in 1..Len(obj) |-> IF obj[i].key = k THEN [key |-> k, val |-> v] ELSE obj[i]]
  ELSE Append(obj, [key |-> k, val |-> v])

\* delete obj[k]
Delete(obj, k) == SelectSeq(obj, LAMBDA e : e.key # k)

\* Object.values(obj)
ObjectValues(obj) == [i \in 1..Len(obj) |-> obj[i].val]

RECURSIVE PutAll(_, _)
\* list.forEach(p => { obj[p.id] = p; })
PutAll(obj, list) ==
  IF list = <<>> THEN obj
  ELSE PutAll(Put(obj, Head(list).id, Head(list)), Tail(list))

----------------------------------------------------------------------------
(* The state as one record, so that a callback's statements compose *)

Cur == [ws |-> ws, socks |-> socks, connected |-> connected,
        playerId |-> playerId, username |-> username, gameId |-> gameId,
        roomId |-> roomId, players |-> players, lobbyInfo |-> lobbyInfo,
        isHost |-> isHost, handlers |-> handlers, calls |-> calls,
        boot |-> boot, emitted |-> <<>>, sent |-> <<>>, overflow |-> FALSE,
        ran |-> <<>>, thrown |-> FALSE]

----------------------------------------------------------------------------
(* WebSocket objects (the browser's, as this code uses them) *)

NoSock == [kind |-> "none", rs |-> "CLOSED", opened |-> FALSE, timer |-> FALSE, owner |-> 0]

NumSocks(st) == Cardinality({s \in SockIds : st.socks[s].kind # "none"})

IsOpen(st, s) == s # 0 /\ st.socks[s].rs = "OPEN"

\* new WebSocket(url): the next unused id
NewWS(st, kind, owner) ==
  IF NumSocks(st) >= MaxSockets THEN [st EXCEPT !.overflow = TRUE]
  ELSE [st EXCEPT !.socks[NumSocks(st) + 1] =
          [kind |-> kind, rs |-> "CONNECTING", opened |-> FALSE,
           timer |-> FALSE, owner |-> owner]]

NewestSock(st) == NumSocks(st)

\* ws.close(): starts the closing handshake; the close event comes later
WSClose(st, s) ==
  IF st.socks[s].rs \in {"CONNECTING", "OPEN"}
  THEN [st EXCEPT !.socks[s].rs = "CLOSING"]
  ELSE st

\* a socket whose close event has been delivered: no callback of it runs again
Closed(st, s) ==
  [st EXCEPT !.socks[s] = [kind |-> @.kind, rs |-> "CLOSED", opened |-> FALSE,
                           timer |-> FALSE, owner |-> 0]]

----------------------------------------------------------------------------
(* Promises of the lobby calls *)

NoCall == [kind |-> "none", pc |-> "none", value |-> None, timer |-> FALSE, args |-> None]

NumCalls(st) == Cardinality({c \in CallIds : st.calls[c].kind # "none"})

Pending(st, c) == st.calls[c].pc \in {"opening", "micro", "waiting"}

\* resolve(v) / reject(e): a settled promise stays as it is
Resolve(st, c, v) ==
  IF Pending(st, c)
  THEN [st EXCEPT !.calls[c].pc = "resolved", !.calls[c].value = Some(v)]
  ELSE st

Reject(st, c, e) ==
  IF Pending(st, c)
  THEN [st EXCEPT !.calls[c].pc = "rejected", !.calls[c].value = Some(e)]
  ELSE st

\* the step's result becomes the next state; a step that would need more
\* sockets than MaxSockets is outside the bounds
Commit(st, l) ==
  /\ ~st.overflow
  /\ ws' = st.ws /\ socks' = st.socks /\ connected' = st.connected
  /\ playerId' = st.playerId /\ username' = st.username /\ gameId' = st.gameId
  /\ roomId' = st.roomId /\ players' = st.players /\ lobbyInfo' = st.lobbyInfo
  /\ isHost' = st.isHost /\ handlers' = st.handlers /\ calls' = st.calls
  /\ emitted' = st.emitted /\ sent' = st.sent /\ boot' = st.boot
  /\ last' = l @@ [settled |-> {c \in CallIds : Pending(Cur, c) /\ ~Pending(st, c)},
                    ran |-> st.ran]

----------------------------------------------------------------------------
(* Event emitter: on, off, emit *)

Events == {"lobbyCreated", "lobbyJoined", "lobbyList", "error"}

\* _handlers[event] || []
Subscribed(st, event) == IF event \in Events THEN st.handlers[event] ELSE <<>>

On(st, event, h) == [st EXCEPT !.handlers[event] = Append(@, h)]

Off(st, event, h) ==
  [st EXCEPT !.handlers[event] = SelectSeq(@, LAMBDA g : g # h)]

H(c, fn) == [call |-> c, fn |-> fn]

\* handlers of the embedding game (call 0), by what they do when invoked:
\* return, throw, unsubscribe themselves, subscribe a further handler
UserFns    == {"user", "userThrows", "userOnce", "userAdds"}
UserEvents == {"lobbyJoined", "error"}

UserCount(st, event) ==
  Cardinality({i \in 1..Len(st.handlers[event]) : st.handlers[event][i].call = 0})

RECURSIVE OffEach(_, _, _)
\* off(e, h) for each event e of es
OffEach(st, es, h) ==
  IF es = {} THEN st
  ELSE LET e == CHOOSE x \in es : TRUE
       IN OffEach(Off(st, e, h), es \ {e}, h)

RECURSIVE OnEach(_, _, _)
\* on(e, h) for each event e of es that has room for a further handler
OnEach(st, es, h) ==
  IF es = {} THEN st
  ELSE LET e == CHOOSE x \in es : TRUE
       IN OnEach(IF UserCount(st, e) < MaxHandlers THEN On(st, e, h) ELSE st, es \ {e}, h)

\* mutant: onCreated without `off('error', onErr)`
RunHandlerKeepsErrListener(st, h, data) ==
  CASE h.fn = "onCreated" ->
         Resolve(Off(st, "lobbyCreated", H(h.call, "onCreated")), h.call, data)
    [] h.fn = "onCreateErr" ->
         Reject(Off(Off(st, "lobbyCreated", H(h.call, "onCreated")),
                    "error", H(h.call, "onCreateErr")), h.call, data)
    [] h.fn = "onJoined" ->
         Resolve(Off(Off(st, "lobbyJoined", H(h.call, "onJoined")),
                     "error", H(h.call, "onJoinErr")), h.call, data)
    [] h.fn = "onJoinErr" ->
         Reject(Off(Off(st, "lobbyJoined", H(h.call, "onJoined")),
                    "error", H(h.call, "onJoinErr")), h.call, data)
    [] h.fn = "onList" ->
         Resolve(Off(st, "lobbyList", H(h.call, "onList")), h.call, data.lobbies)
    [] OTHER -> st

\* the handlers this code subscribes: the one-shot listeners of a call
RunHandler(st, h, data) ==
  CASE h.fn = "onCreated" ->
         Resolve(Off(Off(st, "lobbyCreated", H(h.call, "onCreated")),
                     "error", H(h.call, "onCreateErr")), h.call, data)
    [] h.fn = "onCreateErr" ->
         Reject(Off(Off(st, "lobbyCreated", H(h.call, "onCreated")),
                    "error", H(h.call, "onCreateErr")), h.call, data)
    [] h.fn = "onJoined" ->
         Resolve(Off(Off(st, "lobbyJoined", H(h.call, "onJoined")),
                     "error", H(h.call, "onJoinErr")), h.call, data)
    [] h.fn = "onJoinErr" ->
         Reject(Off(Off(st, "lobbyJoined", H(h.call, "onJoined")),
                    "error", H(h.call, "onJoinErr")), h.call, data)
    [] h.fn = "onList" ->
         Resolve(Off(st, "lobbyList", H(h.call, "onList")), h.call, data.lobbies)
    [] h.fn = "userThrows" -> [st EXCEPT !.thrown = TRUE]
    [] h.fn = "userOnce"   -> OffEach(st, UserEvents, h)
    [] h.fn = "userAdds"   -> OnEach(st, UserEvents, H(0, "user"))
    [] OTHER -> st

\* mutant: emit stops after the first subscriber
RunAllFirstOnly(st, hs, data) ==
  IF hs = <<>> THEN st ELSE RunHandler(st, Head(hs), data)

RECURSIVE RunAllNoCatch(_, _, _)
\* mutant: fn(data) outside try/catch: a throw ends the forEach and reaches
\* the publisher
RunAllNoCatch(st, hs, data) ==
  IF hs = <<>> THEN st
  ELSE LET r == RunHandler([st EXCEPT !.ran = Append(@, Head(hs))], Head(hs), data)
       IN IF r.thrown THEN r ELSE RunAllNoCatch(r, Tail(hs), data)

RECURSIVE RunAll(_, _, _)
\* forEach over the handler list as it was when emit started, each
\* invocation in try { fn(data) } catch (e) { console.error(...) }
RunAll(st, hs, data) ==
  IF hs = <<>> THEN st
  ELSE LET r == RunHandler([st EXCEPT !.ran = Append(@, Head(hs))], Head(hs), data)
       IN RunAll([r EXCEPT !.thrown = FALSE], Tail(hs), data)

Emit(st, event, data) ==
  RunAll([st EXCEPT !.emitted = Append(@, [event |-> event, data |-> data])],
         Subscribed(st, event), data)

----------------------------------------------------------------------------
(* _send *)

\* mutant: _send without the readyState test
SendUnchecked(st, msg) ==
  [st EXCEPT !.sent = Append(@, [sock |-> st.ws, frame |-> msg])]

Send(st, msg) ==
  IF st.ws # 0 /\ st.socks[st.ws].rs = "OPEN"
  THEN [st EXCEPT !.sent = Append(@, [sock |-> st.ws, frame |-> msg])]
  ELSE st

----------------------------------------------------------------------------
(* Message dispatcher *)

\* the session is left without a lobby: lobby_left / lobby_kicked / lobby_closed
\* mutant: the reset forgets `_isHost = false`
ResetLobbyKeepsHost(st) ==
  [st EXCEPT !.lobbyInfo = None, !.players = EmptyObj]

ResetLobby(st) ==
  [st EXCEPT !.lobbyInfo = None, !.isHost = FALSE, !.players = EmptyObj]

\* mutant: lobby_created without `_isHost = true`
OnLobbyCreatedNoHost(st, msg) ==
  LET info == [lobbyId |-> msg.lobbyId, lobbyName |-> msg.lobbyName,
               isPublic |-> msg.isPublic, maxPlayers |-> msg.maxPlayers]
  IN Emit([st EXCEPT !.lobbyInfo = Some(info)],
          "lobbyCreated",
          [lobbyId |-> info.lobbyId, lobbyName |-> info.lobbyName,
           isPublic |-> info.isPublic, maxPlayers |-> info.maxPlayers,
           playerId |-> msg.playerId])

OnLobbyCreated(st, msg) ==
  LET info == [lobbyId |-> msg.lobbyId, lobbyName |-> msg.lobbyName,
               isPublic |-> msg.isPublic, maxPlayers |-> msg.maxPlayers]
  IN Emit([st EXCEPT !.lobbyInfo = Some(info), !.isHost = TRUE],
          "lobbyCreated",
          [lobbyId |-> info.lobbyId, lobbyName |-> info.lobbyName,
           isPublic |-> info.isPublic, maxPlayers |-> info.maxPlayers,
           playerId |-> msg.playerId])

\* mutant: lobby_state without `_isHost = msg.ownerId === _playerId`
OnLobbyStateKeepsHost(st, msg) ==
  LET ps   == PutAll(EmptyObj, OrEmpty(msg.players))
      info == [lobbyId |-> msg.lobbyId, lobbyName |-> msg.lobbyName,
               isPublic |-> msg.isPublic, ownerId |-> msg.ownerId,
               maxPlayers |-> msg.maxPlayers]
  IN Emit([st EXCEPT !.players = ps, !.lobbyInfo = Some(info)],
          "lobbyJoined",
          [lobbyId |-> msg.lobbyId, lobbyName |-> msg.lobbyName,
           ownerId |-> msg.ownerId, players |-> ObjectValues(ps)])

\* mutant: lobby_state without `_players = {}`
OnLobbyStateKeepsPlayers(st, msg) ==
  LET ps   == PutAll(st.players, OrEmpty(msg.players))
      info == [lobbyId |-> msg.lobbyId, lobbyName |-> msg.lobbyName,
               isPublic |-> msg.isPublic, ownerId |-> msg.ownerId,
               maxPlayers |-> msg.maxPlayers]
  IN Emit([st EXCEPT !.players = ps, !.lobbyInfo = Some(info),
                     !.isHost = (msg.ownerId = st.playerId)],
          "lobbyJoined",
          [lobbyId |-> msg.lobbyId, lobbyName |-> msg.lobbyName,
           ownerId |-> msg.ownerId, players |-> ObjectValues(ps)])

\* a null entry of a players array: p.id throws a TypeError on it
NullPlayer == [null |-> TRUE]

\* forEach(p => { _players[p.id] = p; }) throws on this array
ThrowsOn(list) == \E i \in 1..Len(list) : list[i] = NullPlayer

\* the entries forEach has stored when it throws, or all of them
RECURSIVE GoodPrefix(_)
GoodPrefix(list) ==
  IF list = <<>> THEN <<>>
  ELSE IF Head(list) = NullPlayer THEN <<>>
  ELSE <<Head(list)>> \o GoodPrefix(Tail(list))

\* _players = {} and the forEach run first; when the forEach throws, the
\* statements after it are not reached
OnLobbyState(st, msg) ==
  LET list == OrEmpty(msg.players)
      ps   == PutAll(EmptyObj, GoodPrefix(list))
      info == [lobbyId |-> msg.lobbyId, lobbyName |-> msg.lobbyName,
               isPublic |-> msg.isPublic, ownerId |-> msg.ownerId,
               maxPlayers |-> msg.maxPlayers]
  IN IF ThrowsOn(list) THEN [st EXCEPT !.players = ps, !.thrown = TRUE]
     ELSE Emit([st EXCEPT !.players = ps, !.lobbyInfo = Some(info),
                          !.isHost = (msg.ownerId = st.playerId)],
               "lobbyJoined",
               [lobbyId |-> msg.lobbyId, lobbyName |-> msg.lobbyName,
                ownerId |-> msg.ownerId, players |-> ObjectValues(ps)])

OnPlayerJoined(st, msg) ==
  Emit([st EXCEPT !.players = Put(@, msg.playerId,
                     [id |-> msg.playerId, username |-> msg.username, data |-> EmptyObj])],
       "playerJoined", [id |-> msg.playerId, username |-> msg.username])

\* leaving && leaving.username
LeavingName(st, id) ==
  IF Get(st.players, id) = None THEN Undef ELSE Get(st.players, id)[1].username

\* mutant: lobby_player_left empties the whole set
OnLobbyPlayerLeftClearsAll(st, msg) ==
  Emit([st EXCEPT !.players = EmptyObj],
       "playerLeft", [id |-> msg.playerId, username |-> LeavingName(st, msg.playerId),
                      reason |-> msg.reason])

OnLobbyPlayerLeft(st, msg) ==
  Emit([st EXCEPT !.players = Delete(@, msg.playerId)],
       "playerLeft", [id |-> msg.playerId, username |-> LeavingName(st, msg.playerId),
                      reason |-> msg.reason])

OnPlayerLeft(st, msg) ==
  Emit([st EXCEPT !.players = Delete(@, msg.playerId)],
       "playerLeft", [id |-> msg.playerId, username |-> LeavingName(st, msg.playerId)])

OnLobbyOwnerChanged(st, msg) ==
  Emit([st EXCEPT
          !.lobbyInfo = IF @ = None THEN None
                        ELSE Some([lobbyId |-> @[1].lobbyId, lobbyName |-> @[1].lobbyName,
                                   isPublic |-> @[1].isPublic, ownerId |-> msg.newOwnerId,
                                   maxPlayers |-> @[1].maxPlayers]),
          !.isHost = (msg.newOwnerId = st.playerId)],
       "lobbyOwnerChanged", [newOwnerId |-> msg.newOwnerId])

\* mutant: state_update replaces the stored data instead of merging into it
OnStateUpdateReplaces(st, msg) ==
  LET old == Get(st.players, msg.playerId)
      new == IF old # None
             THEN [id |-> old[1].id, username |-> old[1].username,
                   data |-> OrEmpty(msg.data)]
             ELSE [id |-> msg.playerId,
                   username |-> IF msg.username = Undef THEN "Player" ELSE msg.username,
                   data |-> OrEmpty(msg.data)]
  IN Emit([st EXCEPT !.players = Put(@, msg.playerId, new)],
          "playerUpdated", [id |-> msg.playerId, data |-> msg.data])

\* mutant: state_update for a player that is not known is ignored
OnStateUpdateKnownOnly(st, msg) ==
  LET old == Get(st.players, msg.playerId)
  IN IF old = None
     THEN Emit(st, "playerUpdated", [id |-> msg.playerId, data |-> msg.data])
     ELSE Emit([st EXCEPT !.players = Put(@, msg.playerId,
                            [id |-> old[1].id, username |-> old[1].username,
                             data |-> Spread(old[1].data, OrEmpty(msg.data))])],
               "playerUpdated", [id |-> msg.playerId, data |-> msg.data])

OnStateUpdate(st, msg) ==
  LET old == Get(st.players, msg.playerId)
      new == IF old # None
             THEN [id |-> old[1].id, username |-> old[1].username,
                   data |-> Spread(old[1].data, OrEmpty(msg.data))]
             ELSE [id |-> msg.playerId,
                   username |-> IF msg.username = Undef THEN "Player" ELSE msg.username,
                   data |-> OrEmpty(msg.data)]
  IN Emit([st EXCEPT !.players = Put(@, msg.playerId, new)],
          "playerUpdated", [id |-> msg.playerId, data |-> msg.data])

OnRoomState(st, msg) ==
  LET list == OrEmpty(msg.players)
      ps   == PutAll(EmptyObj, GoodPrefix(list))
  IN IF ThrowsOn(list) THEN [st EXCEPT !.players = ps, !.thrown = TRUE]
     ELSE Emit([st EXCEPT !.players = ps], "roomState", [players |-> ObjectValues(ps)])

\* _handleMessage(msg): switch (msg.type)
HandleMessage(st, msg) ==
  CASE msg.type = "lobby_created"       -> OnLobbyCreated(st, msg)
    [] msg.type = "lobby_state"         -> OnLobbyState(st, msg)
    [] msg.type = "lobby_player_joined" -> OnPlayerJoined(st, msg)
    [] msg.type = "lobby_player_left"   -> OnLobbyPlayerLeft(st, msg)
    [] msg.type = "lobby_left"          -> Emit(ResetLobby(st), "lobbyLeft", EmptyObj)
    [] msg.type = "lobby_kicked"        -> Emit(ResetLobby(st), "lobbyKicked", [reason |-> msg.reason])
    [] msg.type = "lobby_closed"        -> Emit(ResetLobby(st), "lobbyClosed", EmptyObj)
    [] msg.type = "lobby_owner_changed" -> OnLobbyOwnerChanged(st, msg)
    [] msg.type = "lobby_list"          -> Emit(st, "lobbyList", [lobbies |-> OrEmpty(msg.lobbies)])
    [] msg.type = "state_update"        -> OnStateUpdate(st, msg)
    [] msg.type = "custom"              -> Emit(st, "message", [from |-> msg.playerId,
                                                   event |-> msg.event, data |-> msg.data])
    [] msg.type = "player_joined"       -> OnPlayerJoined(st, msg)
    [] msg.type = "player_left"         -> OnPlayerLeft(st, msg)
    [] msg.type = "room_state"          -> OnRoomState(st, msg)
    [] msg.type = "error"               -> Emit(st, "error", [error |-> msg.message])
    [] OTHER                            -> st

\* JSON.parse(e.data): a text frame is JSON text or it is not; JSON text
\* denotes null or an object (the only values whose `type` matters)
JSONparse(text) ==
  IF text.json THEN [ok |-> TRUE, value |-> text.value] ELSE [ok |-> FALSE]

\* mutant: the catch block publishes the failure as an 'error' event
OnMessageReportsFailure(st, text) ==
  LET r == JSONparse(text)
  IN IF ~r.ok THEN Emit(st, "error", [error |-> "SyntaxError"])
     ELSE IF r.value = None THEN Emit(st, "error", [error |-> "TypeError"])
     ELSE HandleMessage(st, r.value[1])

\* ws.onmessage: try { _handleMessage(JSON.parse(e.data)) } catch (_) {}
\* JSON.parse throws on non-JSON text, msg.type throws on null
OnMessage(st, text) ==
  LET r == JSONparse(text)
  IN IF ~r.ok THEN st
     ELSE IF r.value = None THEN st
     ELSE [HandleMessage(st, r.value[1]) EXCEPT !.thrown = FALSE]

----------------------------------------------------------------------------
(* Inbound text frames: what a server, or anything else on the wire, may send *)

Metas == {[lobbyId |-> "L1", lobbyName |-> "PUBLIC_Arena", isPublic |-> TRUE,  maxPlayers |-> 4],
          [lobbyId |-> "L2", lobbyName |-> "Den",          isPublic |-> FALSE, maxPlayers |-> 8]}

Ann  == [id |-> "p_ann", username |-> "Ann", data |-> EmptyObj]
Ann2 == [id |-> "p_ann", username |-> "Ann", data |-> [k \in {"x"} |-> "1"]]
Me   == [id |-> "p_me",  username |-> "Bob", data |-> EmptyObj]

\* player lists of a snapshot; the last one names one id twice
PlayerLists == {<<>>, <<Ann>>, <<Ann, Me>>, <<Me, Ann>>, <<Ann, Ann2>>}

Opt(S) == {None} \cup {Some(x) : x \in S}

LobbyFrames(metas, lists) ==
       {[type |-> "lobby_created", lobbyId |-> m.lobbyId, lobbyName |-> m.lobbyName,
         isPublic |-> m.isPublic, maxPlayers |-> m.maxPlayers, playerId |-> i]
          : m \in metas, i \in GenIds}
  \cup {[type |-> "lobby_state", lobbyId |-> m.lobbyId, lobbyName |-> m.lobbyName,
         isPublic |-> m.isPublic, ownerId |-> o, maxPlayers |-> m.maxPlayers, players |-> l]
          : m \in metas, o \in PIds, l \in lists}
  \cup {[type |-> "lobby_list", lobbies |-> l]
          : l \in {None, Some(EmptyList), Some(<<[lobbyId |-> "L1"]>>)}}
  \cup {[type |-> "error", message |-> "lobby full"]}

ExitFrames ==
       {[type |-> "lobby_left"], [type |-> "lobby_closed"],
        [type |-> "lobby_kicked", reason |-> "inactive"],
        [type |-> "lobby_kicked", reason |-> Undef]}
  \cup {[type |-> "lobby_owner_changed", newOwnerId |-> o] : o \in PIds}

MemberFrames(ids, lists) ==
       {[type |-> t, playerId |-> i, username |-> IF i = "p_ann" THEN "Ann" ELSE "Bob"]
          : t \in {"lobby_player_joined", "player_joined"}, i \in ids}
  \cup {[type |-> "lobby_player_left", playerId |-> i, reason |-> "left"] : i \in ids}
  \cup {[type |-> "player_left", playerId |-> i] : i \in ids}
  \cup {[type |-> "room_state", players |-> l] : l \in lists}

UpdateFrames(ids, datas) ==
       {[type |-> "state_update", playerId |-> i, username |-> Undef, data |-> d]
          : i \in ids, d \in Opt(datas)}
  \cup {[type |-> "custom", playerId |-> i, event |-> "ping", data |-> None] : i \in ids}

\* text that is not JSON, JSON null, and JSON objects with no or an unknown type
BadTexts == {[json |-> FALSE],
             [json |-> TRUE, value |-> None],
             [json |-> TRUE, value |-> Some([type |-> Undef])],
             [json |-> TRUE, value |-> Some([type |-> "lobby_renamed"])]}

Text(msg) == [json |-> TRUE, value |-> Some(msg)]

TinyData == {EmptyObj, [k \in {"x"} |-> "1"]}
AllData  == DataOver(Keys, Vals)

\* the type tag of a text frame, as far as it has one
TypeOf(text) ==
  IF ~text.json THEN "(not JSON)"
  ELSE IF text.value = None THEN "(null)" ELSE text.value[1].type

\* the responses to the lobby handshakes
HandshakeTexts ==
  {Text(m) : m \in {f \in LobbyFrames({CHOOSE m \in Metas : m.lobbyId = "L1"}, {Some(<<Ann>>)}) :
                      f.type = "lobby_list" => f.lobbies # Some(EmptyList)}}

ErrorTexts == {t \in HandshakeTexts : TypeOf(t) = "error"}

\* every kind of frame, with small payloads
DispatchTexts ==
  BadTexts
    \cup {Text(m) : m \in LobbyFrames(Metas, Opt(PlayerLists))}
    \cup {Text(m) : m \in ExitFrames}
    \cup {Text(m) : m \in MemberFrames(PIds, Opt({<<Ann>>, <<Ann, Ann2>>}))}
    \cup {Text(m) : m \in UpdateFrames({"p_ann"}, TinyData)}

----------------------------------------------------------------------------
(* Connection manager: _openWS *)

\* mutant: _openWS drops its reference to a stale socket without closing it
OpenWSKeepsStale(st, c) ==
  IF IsOpen(st, st.ws)
  THEN [st EXCEPT !.calls[c].pc = "micro"]
  ELSE LET st2 == NewWS([st EXCEPT !.ws = 0], "openWS", c)
       IN IF st2.overflow THEN st2
          ELSE [st2 EXCEPT !.socks[NewestSock(st2)].timer = TRUE,
                           !.calls[c].pc = "opening"]

\* the executor of the promise _openWS returns, run for call c
OpenWS(st, c) ==
  IF IsOpen(st, st.ws)
  THEN [st EXCEPT !.calls[c].pc = "micro"]
  ELSE LET st1 == IF st.ws # 0 THEN [WSClose(st, st.ws) EXCEPT !.ws = 0] ELSE st
           st2 == NewWS(st1, "openWS", c)
       IN IF st2.overflow THEN st2
          ELSE [st2 EXCEPT !.socks[NewestSock(st2)].timer = TRUE,
                           !.calls[c].pc = "opening"]

----------------------------------------------------------------------------
(* Lobby API: the part of each async function after `await _openWS()` *)

\* mutant: createLobby without `on('error', onErr)`
CreateHandshakeNoErrListener(st, c) ==
  LET a   == st.calls[c].args[1]
      st1 == Emit(st, "connected", [playerId |-> st.playerId])
      st2 == On(st1, "lobbyCreated", H(c, "onCreated"))
      st3 == Send(st2, [type |-> "lobby_create", gameId |-> a.gameId, lobbyId |-> a.lobbyId,
                        lobbyName |-> a.lobbyName, maxPlayers |-> a.maxPlayers,
                        playerId |-> st2.playerId, username |-> st2.username])
  IN [st3 EXCEPT !.calls[c].pc = "waiting"]

CreateHandshake(st, c) ==
  LET a   == st.calls[c].args[1]
      st1 == Emit(st, "connected", [playerId |-> st.playerId])
      st2 == On(On(st1, "lobbyCreated", H(c, "onCreated")), "error", H(c, "onCreateErr"))
      st3 == Send(st2, [type |-> "lobby_create", gameId |-> a.gameId, lobbyId |-> a.lobbyId,
                        lobbyName |-> a.lobbyName, maxPlayers |-> a.maxPlayers,
                        playerId |-> st2.playerId, username |-> st2.username])
  IN [st3 EXCEPT !.calls[c].pc = "waiting"]

JoinHandshake(st, c) ==
  LET a   == st.calls[c].args[1]
      st1 == Emit(st, "connected", [playerId |-> st.playerId])
      st2 == On(On(st1, "lobbyJoined", H(c, "onJoined")), "error", H(c, "onJoinErr"))
      st3 == Send(st2, [type |-> "lobby_join", gameId |-> a.gameId, lobbyId |-> a.lobbyId,
                        playerId |-> st2.playerId, username |-> st2.username])
  IN [st3 EXCEPT !.calls[c].pc = "waiting"]

ListHandshake(st, c) ==
  LET a   == st.calls[c].args[1]
      st1 == On(st, "lobbyList", H(c, "onList"))
      st2 == Send(st1, [type |-> "lobby_list", gameId |-> a.gameId])
  IN [st2 EXCEPT !.calls[c].pc = "waiting", !.calls[c].timer = TRUE]

\* _openWS resolved: the awaiting call resumes
Resume(st, c) ==
  CASE st.calls[c].kind = "create" -> CreateHandshake(st, c)
    [] st.calls[c].kind = "join"   -> JoinHandshake(st, c)
    [] st.calls[c].kind = "list"   -> ListHandshake(st, c)
    [] OTHER -> st

\* _openWS rejected: the awaiting async function rejects with the same error
Abort(st, c, e) == IF st.calls[c].pc = "opening" THEN Reject(st, c, e) ELSE st

\* mutant: a new id is drawn by every call
AssignIdAlways(st, fresh) == [st EXCEPT !.playerId = fresh]

\* _playerId = _playerId || ('p_' + Math.random()...)
AssignId(st, fresh) == [st EXCEPT !.playerId = IF @ = Null THEN fresh ELSE @]

\* _username = username || _username
SetName(st, u) == [st EXCEPT !.username = IF u = Undef THEN @ ELSE u]

NewCall(st, kind, args) ==
  [st EXCEPT !.calls[NumCalls(st) + 1] =
     [kind |-> kind, pc |-> "opening", value |-> None, timer |-> FALSE, args |-> Some(args)]]

createLobby(st, fresh, a) ==
  LET c   == NumCalls(st) + 1
      st1 == [SetName(AssignId(st, fresh), a.username) EXCEPT !.gameId = a.gameId]
  IN OpenWS(NewCall(st1, "create", a), c)

joinLobby(st, fresh, a) ==
  LET c   == NumCalls(st) + 1
      st1 == [SetName(AssignId(st, fresh), a.username) EXCEPT !.gameId = a.gameId]
  IN OpenWS(NewCall(st1, "join", a), c)

listLobbies(st, a) ==
  LET c == NumCalls(st) + 1
  IN OpenWS(NewCall(st, "list", a), c)

\* mutant: leaveLobby without `_players = {}`
leaveLobbyKeepsPlayers(st) ==
  [Send(st, [type |-> "lobby_leave"]) EXCEPT !.lobbyInfo = None, !.isHost = FALSE]

\* mutant: leaveLobby also drops the listeners of the pending joinLobby calls
leaveLobbyCancels(st) ==
  [ResetLobby(Send(st, [type |-> "lobby_leave"])) EXCEPT
     !.handlers["lobbyJoined"] = SelectSeq(@, LAMBDA h : h.fn # "onJoined"),
     !.handlers["error"] = SelectSeq(@, LAMBDA h : h.fn # "onJoinErr")]

leaveLobby(st) == ResetLobby(Send(st, [type |-> "lobby_leave"]))

\* mutant: the timer resolves without unsubscribing onList
ListTimeoutKeepsListener(st, c) ==
  Resolve([st EXCEPT !.calls[c].timer = FALSE], c, EmptyList)

\* the 5 s timer of listLobbies
ListTimeout(st, c) ==
  Resolve([Off(st, "lobbyList", H(c, "onList")) EXCEPT !.calls[c].timer = FALSE],
          c, EmptyList)

----------------------------------------------------------------------------
(* Legacy room API: connect, disconnect *)

connect(st, fresh, room, u) ==
  LET st1 == [SetName(AssignId(st, fresh), u) EXCEPT !.roomId = room]
      st2 == NewWS(st1, "connect", 0)
  IN IF st2.overflow THEN st2 ELSE [st2 EXCEPT !.ws = NewestSock(st2)]

disconnect(st) ==
  LET st1 == IF st.ws # 0 THEN [WSClose(st, st.ws) EXCEPT !.ws = 0] ELSE st
  IN [st1 EXCEPT !.connected = FALSE, !.lobbyInfo = None, !.isHost = FALSE]

----------------------------------------------------------------------------
(* Shared API and owner intents: updateState, sendMessage, kickFromLobby,
   closeLobby *)

updateState(st, data) ==
  Send(st, [type |-> "state_update", playerId |-> st.playerId, data |-> data])

sendMessage(st, event, data) ==
  Send(st, [type |-> "custom", playerId |-> st.playerId, event |-> event, data |-> data])

\* mutant: kickFromLobby checks locally that the caller owns a lobby
kickFromLobbyOwnerOnly(st, targetPlayerId) ==
  IF st.isHost /\ st.lobbyInfo # None
  THEN Send(st, [type |-> "lobby_kick", targetId |-> targetPlayerId])
  ELSE st

kickFromLobby(st, targetPlayerId) ==
  Send(st, [type |-> "lobby_kick", targetId |-> targetPlayerId])

closeLobby(st) == Send(st, [type |-> "lobby_close"])

----------------------------------------------------------------------------
(* Socket callbacks *)

TransportError == [error |-> "transport"]
TimeoutError   == [error |-> "Connection timed out"]

\* ws.onopen
OnOpen(st, s) ==
  IF st.socks[s].kind = "openWS"
  THEN LET c   == st.socks[s].owner
           st1 == [st EXCEPT !.socks[s].timer = FALSE, !.socks[s].opened = TRUE,
                             !.ws = s, !.connected = TRUE]
       IN IF st1.calls[c].pc = "opening" THEN Resume(st1, c) ELSE st1
  ELSE LET st1 == [st EXCEPT !.socks[s].opened = TRUE, !.connected = TRUE]
           st2 == Send(st1, [type |-> "join",
                             gameId |-> IF st1.gameId = Null THEN "unknown" ELSE st1.gameId,
                             roomId |-> st1.roomId, playerId |-> st1.playerId,
                             username |-> st1.username])
       IN Emit(st2, "connected", [playerId |-> st2.playerId])

\* ws.onerror: the handler _openWS installs first rejects the open promise, the
\* one it installs in onopen, and connect's, publish an 'error' event
OnError(st, s) ==
  IF st.socks[s].kind = "openWS" /\ ~st.socks[s].opened
  THEN Abort([st EXCEPT !.socks[s].timer = FALSE], st.socks[s].owner, TransportError)
  ELSE Emit(st, "error", TransportError)

\* ws.onclose: _openWS installs one in onopen, connect installs one at once
OnClose(st, s) ==
  IF st.socks[s].kind = "openWS"
  THEN IF st.socks[s].opened
       THEN Emit([st EXCEPT !.connected = FALSE, !.lobbyInfo = None, !.isHost = FALSE],
                 "disconnected", EmptyObj)
       ELSE st
  ELSE Emit([st EXCEPT !.connected = FALSE], "disconnected", EmptyObj)

\* the 8 s timer of _openWS
OpenTimeout(st, s) ==
  Abort([WSClose(st, s) EXCEPT !.socks[s].timer = FALSE], st.socks[s].owner, TimeoutError)

----------------------------------------------------------------------------
(* Platform init hook: _init, and the reactions it attaches to its lobby call *)

\* _init has not been called
NoBoot == [path |-> "none", call |-> 0, roomId |-> Null, username |-> Undef,
           ready |-> <<>>]

\* emit('ready', { multiplayer })
Ready(st, multiplayer) ==
  [Emit(st, "ready", [multiplayer |-> multiplayer])
     EXCEPT !.boot.ready = Append(@, multiplayer)]

\* lobbyCtx: null, { createLobby: { lobbyName, maxPlayers } } or { joinLobbyId };
\* an absent lobbyName is undefined, an absent maxPlayers is 0 here (both falsy)
LobbyCtxs == {[kind |-> "none"],
              [kind |-> "create", lobbyName |-> "PUBLIC_Arena", maxPlayers |-> 4],
              [kind |-> "create", lobbyName |-> Undef, maxPlayers |-> 0],
              [kind |-> "join", joinLobbyId |-> "L1"]}

\* mutant: the singleplayer branch without its `return`: falls through to connect()
initNoReturn(st, fresh, url, room, u, g, ctx) ==
  LET st1 == [st EXCEPT !.gameId = IF g = Undef THEN "unknown" ELSE g,
                        !.username = IF u = Undef THEN "Player" ELSE u]
      st2 == IF url THEN st1 ELSE Ready([st1 EXCEPT !.boot.path = "single"], FALSE)
      st3 == connect(st2, fresh, room, u)
  IN IF st3.overflow THEN st3
     ELSE IF url THEN Ready([st3 EXCEPT !.boot.path = "legacy"], TRUE) ELSE st3

\* _init(serverUrl, roomId, username, gameId, lobbyCtx); url: serverUrl is given
init(st, fresh, url, room, u, g, ctx) ==
  LET st1 == [st EXCEPT !.gameId = IF g = Undef THEN "unknown" ELSE g,
                        !.username = IF u = Undef THEN "Player" ELSE u]
      c   == NumCalls(st1) + 1
      lobby(st2) == [st2 EXCEPT !.boot = [path |-> "lobby", call |-> c, roomId |-> room,
                                          username |-> u, ready |-> @.ready]]
  IN IF ~url THEN Ready([st1 EXCEPT !.boot.path = "single"], FALSE)
     ELSE IF ctx.kind = "create"
     THEN lobby(createLobby(st1, fresh,
                  [gameId |-> st1.gameId, lobbyId |-> Undef,
                   lobbyName |-> IF ctx.lobbyName = Undef THEN "My Lobby" ELSE ctx.lobbyName,
                   maxPlayers |-> IF ctx.maxPlayers = 0 THEN 8 ELSE ctx.maxPlayers,
                   username |-> u]))
     ELSE IF ctx.kind = "join"
     THEN lobby(joinLobby(st1, fresh,
                  [gameId |-> st1.gameId, lobbyId |-> ctx.joinLobbyId, username |-> u]))
     ELSE LET st2 == connect(st1, fresh, room, u)
          IN IF st2.overflow THEN st2
             ELSE Ready([st2 EXCEPT !.boot.path = "legacy"], TRUE)

\* .then(() => emit('ready', ...)).catch(() => { connect(...); emit('ready', ...) }):
\* the reactions run as microtasks once the promise of the lobby call settled
Reactions(st) ==
  IF st.overflow \/ st.boot.path # "lobby" THEN st
  ELSE IF st.calls[st.boot.call].pc = "resolved"
  THEN Ready([st EXCEPT !.boot.path = "then"], TRUE)
  ELSE IF st.calls[st.boot.call].pc = "rejected"
  THEN LET st1 == connect(st, st.playerId, st.boot.roomId, st.boot.username)
       IN IF st1.overflow THEN st1
          ELSE Ready([st1 EXCEPT !.boot.path = "fallback"], TRUE)
  ELSE st

----------------------------------------------------------------------------
(* Steps *)

CreateArgs == {[gameId |-> "g1", lobbyId |-> Undef, lobbyName |-> "PUBLIC_Arena",
                maxPlayers |-> 4, username |-> "Ann"]}
JoinArgs   == {[gameId |-> "g1", lobbyId |-> "L1", username |-> "Ann"]}
ListArgs   == {[gameId |-> "g1"]}
Rooms      == {"r1"}

\* no continuation is waiting for the running task to end
Idle == \A c \in CallIds : calls[c].pc # "micro"

CanCall == \E c \in CallIds : calls[c].kind = "none"

\* nothing has been called yet
Fresh == NumSocks(Cur) = 0 /\ NumCalls(Cur) = 0

Init ==
  /\ ws = 0
  /\ socks = [s \in SockIds |-> NoSock]
  /\ connected = FALSE
  /\ playerId = Null
  /\ username = "Player"
  /\ gameId = Null
  /\ roomId = Null
  /\ players = EmptyObj
  /\ lobbyInfo = None
  /\ isHost = FALSE
  /\ handlers = [e \in Events |-> <<>>]
  /\ calls = [c \in CallIds |-> NoCall]
  /\ emitted = <<>>
  /\ sent = <<>>
  /\ last = [op |-> "load", settled |-> {}, ran |-> <<>>]
  /\ hist = <<>>
  /\ boot = NoBoot

CallCreateLobby ==
  /\ CanCall
  /\ \E fresh \in GenIds, a \in CreateArgs :
       Commit(createLobby(Cur, fresh, a), [op |-> "createLobby"])
  /\ hist' = <<>>

CallJoinLobby ==
  /\ CanCall
  /\ \E fresh \in GenIds, a \in JoinArgs :
       Commit(joinLobby(Cur, fresh, a), [op |-> "joinLobby"])
  /\ hist' = <<>>

CallListLobbies ==
  /\ CanCall
  /\ \E a \in ListArgs : Commit(listLobbies(Cur, a), [op |-> "listLobbies"])
  /\ hist' = <<>>

CallLeaveLobby ==
  /\ Commit(leaveLobby(Cur), [op |-> "leaveLobby"])
  /\ hist' = <<>>

CallConnect ==
  /\ \E fresh \in GenIds, room \in Rooms, u \in Names :
       Commit(connect(Cur, fresh, room, u), [op |-> "connect"])
  /\ hist' = <<>>

CallDisconnect ==
  /\ Commit(disconnect(Cur), [op |-> "disconnect"])
  /\ hist' = <<>>

RECURSIVE ResumeAll(_, _)
ResumeAll(st, c) ==
  IF c > MaxCalls THEN st
  ELSE ResumeAll(IF st.calls[c].pc = "micro" THEN Resume(st, c) ELSE st, c + 1)

\* the calling task ends: the continuations of calls whose _openWS resolved
\* at once run, in the order of the calls
Microtasks ==
  /\ ~Idle
  /\ Commit(Reactions(ResumeAll(Cur, 1)), [op |-> "microtasks"])
  /\ hist' = <<>>

\* the 'open' event of a socket
SockOpen(s) ==
  /\ Idle
  /\ socks[s].rs = "CONNECTING"
  /\ Commit(OnOpen([Cur EXCEPT !.socks[s].rs = "OPEN"], s),
            [op |-> "open", kind |-> socks[s].kind])
  /\ hist' = <<>>

\* the state_update frames for one player since another step, led by the
\* data the player had before the first of them ({} when it was not known)
Track(text) ==
  IF TypeOf(text) = "state_update"
  THEN LET m == text.value[1]
           before == Get(players, m.playerId)
       IN IF hist # <<>> /\ hist[1].playerId = m.playerId
          THEN Append(hist, m)
          ELSE <<[playerId |-> m.playerId,
                  data |-> IF before = None THEN None ELSE Some(before[1].data)], m>>
  ELSE <<>>

\* a text frame arrives on an open socket
SockMessage(s, text) ==
  /\ Idle
  /\ socks[s].rs = "OPEN"
  /\ Commit(Reactions(OnMessage(Cur, text)), [op |-> "message", type |-> TypeOf(text)])
  /\ hist' = <<>>

\* the same, the run of state_update frames recorded
SockUpdate(s, text) ==
  /\ Idle
  /\ socks[s].rs = "OPEN"
  /\ Len(Track(text)) <= MaxUpdates + 1
  /\ Commit(Reactions(OnMessage(Cur, text)), [op |-> "message", type |-> TypeOf(text)])
  /\ hist' = Track(text)

\* the connection is closed (by the peer, or a close() completes): 'close'
SockClose(s) ==
  /\ Idle
  /\ socks[s].rs \in {"OPEN", "CLOSING"}
  /\ socks[s].opened
  /\ Commit(Closed(OnClose([Cur EXCEPT !.socks[s].rs = "CLOSED"], s), s),
            [op |-> "close", kind |-> socks[s].kind, rs |-> socks[s].rs])
  /\ hist' = <<>>

\* the connection fails (refused, dropped, or closed before it was
\* established): 'error', then 'close', the microtasks of the first in between
SockFail(s) ==
  /\ Idle
  /\ socks[s].rs \in {"CONNECTING", "OPEN", "CLOSING"}
  /\ Commit(Closed(OnClose(Reactions(OnError([Cur EXCEPT !.socks[s].rs = "CLOSED"], s)), s), s),
            [op |-> "fail", kind |-> socks[s].kind, rs |-> socks[s].rs])
  /\ hist' = <<>>

OpenTimer(s) ==
  /\ Idle
  /\ socks[s].timer
  /\ Commit(Reactions(OpenTimeout(Cur, s)), [op |-> "openTimeout"])
  /\ hist' = <<>>

ListTimer(c) ==
  /\ Idle
  /\ calls[c].timer
  /\ Commit(ListTimeout(Cur, c), [op |-> "listTimeout", call |-> c])
  /\ hist' = <<>>

CallUpdateState ==
  /\ \E d \in TinyData : Commit(updateState(Cur, d), [op |-> "updateState"])
  /\ hist' = <<>>

CallSendMessage ==
  /\ \E d \in TinyData : Commit(sendMessage(Cur, "ping", d), [op |-> "sendMessage"])
  /\ hist' = <<>>

CallKickFromLobby ==
  /\ \E t \in PIds : Commit(kickFromLobby(Cur, t), [op |-> "kickFromLobby", target |-> t])
  /\ hist' = <<>>

CallCloseLobby ==
  /\ Commit(closeLobby(Cur), [op |-> "closeLobby"])
  /\ hist' = <<>>

\* Lorl.on(event, handler) / Lorl.off(event, handler), called by the game
CallOn(event, fn) ==
  /\ UserCount(Cur, event) < MaxHandlers
  /\ Commit(On(Cur, event, H(0, fn)), [op |-> "on"])
  /\ hist' = <<>>

CallOff(event, fn) ==
  /\ Commit(Off(Cur, event, H(0, fn)), [op |-> "off"])
  /\ hist' = <<>>

----------------------------------------------------------------------------
(* Spec: the whole client, the server answering the handshakes *)

Next ==
  \/ CallCreateLobby
  \/ CallJoinLobby
  \/ CallListLobbies
  \/ CallLeaveLobby
  \/ CallConnect
  \/ CallDisconnect
  \/ Microtasks
  \/ \E s \in SockIds : SockOpen(s)
  \/ \E s \in SockIds, text \in HandshakeTexts : SockMessage(s, text)
  \/ \E s \in SockIds : SockClose(s)
  \/ \E s \in SockIds : SockFail(s)
  \/ \E s \in SockIds : OpenTimer(s)
  \/ \E c \in CallIds : ListTimer(c)

Spec == Init /\ [][Next]_vars

----------------------------------------------------------------------------
(* SpecDispatch: one connection, every kind of frame on it *)

NextDispatch ==
  \/ Fresh /\ CallCreateLobby
  \/ Fresh /\ CallJoinLobby
  \/ Fresh /\ CallConnect
  \/ CallLeaveLobby
  \/ CallDisconnect
  \/ \E s \in SockIds : SockOpen(s)
  \/ \E s \in SockIds, text \in DispatchTexts : SockMessage(s, text)
  \/ \E s \in SockIds : SockClose(s)
  \/ \E s \in SockIds : SockFail(s)

SpecDispatch == Init /\ [][NextDispatch]_vars

----------------------------------------------------------------------------
(* SpecMerge: one legacy connection, membership and state_update frames of
   one player with every data object over Keys and Vals *)

MergeTexts ==
  {Text(m) : m \in {f \in MemberFrames({"p_ann"}, {}) \cup UpdateFrames({"p_ann"}, AllData) :
                      f.type \in {"state_update", "lobby_player_joined", "lobby_player_left"}}}
  \cup {Text([type |-> "lobby_state", lobbyId |-> "L1", lobbyName |-> "Den",
              isPublic |-> FALSE, ownerId |-> "p_ann", maxPlayers |-> 8,
              players |-> Some(<<[id |-> "p_ann", username |-> "Ann", data |-> d]>>)])
          : d \in AllData}

NextMerge ==
  \/ Fresh /\ CallConnect
  \/ \E s \in SockIds : SockOpen(s)
  \/ \E s \in SockIds, text \in MergeTexts : SockUpdate(s, text)
  \/ \E s \in SockIds : SockClose(s)

SpecMerge == Init /\ [][NextMerge]_vars

----------------------------------------------------------------------------
(* SpecInit: the platform calls _init once, on a fresh session or on one
   that game code has already taken into a lobby; the server may answer the
   handshakes or stay silent *)

Users   == {Undef} \cup Names
GameIds == {Undef, "g1"}

CallInit ==
  /\ boot.path = "none"
  /\ CanCall
  /\ \E fresh \in GenIds, url \in BOOLEAN, room \in Rooms, u \in Users,
        g \in GameIds, ctx \in LobbyCtxs :
       Commit(init(Cur, fresh, url, room, u, g, ctx),
              [op |-> "init", url |-> url, ctx |-> ctx.kind])
  /\ hist' = <<>>

NextInit ==
  \/ CallInit
  \/ Fresh /\ CallJoinLobby
  \/ Microtasks
  \/ \E s \in SockIds : SockOpen(s)
  \/ \E s \in SockIds, text \in HandshakeTexts : SockMessage(s, text)
  \/ \E s \in SockIds : SockClose(s)
  \/ \E s \in SockIds : SockFail(s)
  \/ \E s \in SockIds : OpenTimer(s)

SpecInit == Init /\ [][NextInit]_vars

----------------------------------------------------------------------------
(* SpecSend: the operations that only write a frame, on a session that game
   code connects, takes through lobby calls, and disconnects; the server
   answers a join with a snapshot *)

SendTexts ==
  {Text(m) : m \in {f \in LobbyFrames({CHOOSE m \in Metas : m.lobbyId = "L1"}, {Some(<<Ann>>)}) :
                      f.type = "lobby_state"}}

NextSend ==
  \/ Fresh /\ CallConnect
  \/ CallCreateLobby
  \/ CallJoinLobby
  \/ CallListLobbies
  \/ CallLeaveLobby
  \/ CallDisconnect
  \/ CallUpdateState
  \/ CallSendMessage
  \/ CallKickFromLobby
  \/ CallCloseLobby
  \/ Microtasks
  \/ \E s \in SockIds : SockOpen(s)
  \/ \E s \in SockIds, text \in SendTexts : SockMessage(s, text)
  \/ \E s \in SockIds : SockClose(s)
  \/ \E s \in SockIds : SockFail(s)

SpecSend == Init /\ [][NextSend]_vars

----------------------------------------------------------------------------
(* SpecBus: the game subscribes and unsubscribes handlers of its own, before
   and during one joinLobby handshake; the server answers with a snapshot or
   an error *)

BusTexts == {t \in HandshakeTexts : TypeOf(t) \in {"lobby_state", "error"}}

NextBus ==
  \/ \E e \in UserEvents, fn \in UserFns : CallOn(e, fn)
  \/ \E e \in UserEvents, fn \in UserFns : CallOff(e, fn)
  \/ Fresh /\ CallJoinLobby
  \/ \E s \in SockIds : SockOpen(s)
  \/ \E s \in SockIds, text \in BusTexts : SockMessage(s, text)
  \/ \E s \in SockIds : SockClose(s)
  \/ \E s \in SockIds : SockFail(s)

SpecBus == Init /\ [][NextBus]_vars

----------------------------------------------------------------------------
(* SpecIdentity: every call that may assign the player id draws a random id
   of its own; the platform calls _init once, the game calls createLobby,
   joinLobby, connect and disconnect; the server answers a handshake with an
   error or not at all *)

FreshIds == GenIds \cup {"p_new"}

DrawInit ==
  /\ boot.path = "none"
  /\ CanCall
  /\ \E fresh \in FreshIds, room \in Rooms, ctx \in LobbyCtxs :
       Commit(init(Cur, fresh, TRUE, room, Undef, "g1", ctx),
              [op |-> "init", url |-> TRUE, ctx |-> ctx.kind])
  /\ hist' = <<>>

DrawCreateLobby ==
  /\ CanCall
  /\ \E fresh \in FreshIds, a \in CreateArgs :
       Commit(createLobby(Cur, fresh, a), [op |-> "createLobby"])
  /\ hist' = <<>>

DrawJoinLobby ==
  /\ CanCall
  /\ \E fresh \in FreshIds, a \in JoinArgs :
       Commit(joinLobby(Cur, fresh, a), [op |-> "joinLobby"])
  /\ hist' = <<>>

DrawConnect ==
  /\ \E fresh \in FreshIds, room \in Rooms, u \in Names :
       Commit(connect(Cur, fresh, room, u), [op |-> "connect"])
  /\ hist' = <<>>

NextIdentity ==
  \/ DrawInit
  \/ DrawCreateLobby
  \/ DrawJoinLobby
  \/ DrawConnect
  \/ CallDisconnect
  \/ Microtasks
  \/ \E s \in SockIds : SockOpen(s)
  \/ \E s \in SockIds, text \in ErrorTexts : SockMessage(s, text)
  \/ \E s \in SockIds : SockClose(s)
  \/ \E s \in SockIds : SockFail(s)
  \/ \E s \in SockIds : OpenTimer(s)

SpecIdentity == Init /\ [][NextIdentity]_vars

----------------------------------------------------------------------------
(* SpecAtomic: one lobby or legacy connection; the server sends lobby_state
   and room_state frames whose players array may hold a null entry, among
   well-formed membership frames.  A players field that is no array at all
   (a number, a string) fails as an array with a null first entry does:
   after _players = {} and before anything is stored. *)

MalformedLists == {<<NullPlayer>>, <<Ann, NullPlayer>>, <<Ann, NullPlayer, Me>>}

AtomicTexts ==
  {Text(m) : m \in {f \in LobbyFrames({CHOOSE m \in Metas : m.lobbyId = "L1"},
                                      {Some(l) : l \in {<<Ann>>, <<Me, Ann>>} \cup MalformedLists}) :
                      f.type = "lobby_state"}}
  \cup {Text(m) : m \in {f \in MemberFrames({"p_ann"}, {Some(l) : l \in {<<Ann>>} \cup MalformedLists}) :
                           f.type \in {"room_state", "lobby_player_joined", "lobby_player_left"}}}
  \cup {Text(m) : m \in {f \in ExitFrames : f.type = "lobby_left"}}

NextAtomic ==
  \/ Fresh /\ CallJoinLobby
  \/ Fresh /\ CallConnect
  \/ \E s \in SockIds : SockOpen(s)
  \/ \E s \in SockIds, text \in AtomicTexts : SockMessage(s, text)
  \/ \E s \in SockIds : SockClose(s)

SpecAtomic == Init /\ [][NextAtomic]_vars

-----------------------------------------------------------------------------
(* Accessors and helpers of the properties *)

\* lobbyInfo.ownerId as getLobbyInfo() shows it: undefined when never set
OwnerOf(info) == IF "ownerId" \in DOMAIN info THEN info.ownerId ELSE Undef

\* getPlayers()
getPlayers == ObjectValues(players)

Count(seq, x) == Cardinality({i \in 1..Len(seq) : seq[i] = x})

Published(event) == Cardinality({i \in 1..Len(emitted) : emitted[i].event = event})

LiveSockets == {s \in SockIds : socks[s].rs = "OPEN"}

ListTexts ==
  {Text([type |-> "lobby_list", lobbies |-> l])
     : l \in {None, Some(EmptyList), Some(<<[lobbyId |-> "L1"]>>)}}

StateTexts == {t \in DispatchTexts : TypeOf(t) = "lobby_state"}

\* values holds, for each id named in list, exactly the last record of list
\* with that id, and nothing else
KeyedById(values, list) ==
  \A id \in PIds :
    LET vs == {i \in 1..Len(values) : values[i].id = id}
        ls == {i \in 1..Len(list) : list[i].id = id}
    IN IF ls = {} THEN vs = {}
       ELSE /\ Cardinality(vs) = 1
            /\ \A i \in vs : values[i] = list[CHOOSE j \in ls : \A k \in ls : k <= j]

\* d is the shallow merge of the objects of seq in order: it has the keys of
\* all of them, each with the value of the last object that has the key
IsMergeOf(d, seq) ==
  /\ DOMAIN d = UNION {DOMAIN seq[i] : i \in 1..Len(seq)}
  /\ \A k \in DOMAIN d :
       \E i \in 1..Len(seq) :
         /\ k \in DOMAIN seq[i] /\ d[k] = seq[i][k]
         /\ \A j \in (i + 1)..Len(seq) : k \notin DOMAIN seq[j]

----------------------------------------------------------------------------
(* C1: at most one socket created by the session is open at a time.
   Fails: connect() replaces _ws without closing the socket it held, and two
   _openWS calls started before the first 'open' each open their own socket. *)
C1_AtMostOneLiveSocket == Cardinality(LiveSockets) <= 1

(* C2: when an open socket closes unexpectedly, the close handler leaves
   connected false, LobbyInfo null, isHost false and the RemotePlayer set
   empty, and publishes exactly one 'disconnected' event.
   Fails: neither close handler empties _players, and connect's keeps
   _lobbyInfo and _isHost. *)
C2_UnexpectedCloseResets ==
  (last.op \in {"close", "fail"} /\ last.rs = "OPEN") =>
     /\ connected = FALSE
     /\ lobbyInfo = None
     /\ isHost = FALSE
     /\ players = EmptyObj
     /\ Published("disconnected") = 1

(* C3: whenever LobbyInfo is non-null, isHost() = (LobbyInfo.ownerId = playerId).
   Fails: lobby_created sets isHost without storing an ownerId. *)
C3_HostIffOwner ==
  lobbyInfo # None => (isHost <=> (OwnerOf(lobbyInfo[1]) = playerId))

(* C4: the promise listLobbies returns never rejects.
   Fails: a rejection of _openWS (error before open, 8 s timeout) rejects it. *)
C4_ListNeverRejects ==
  \A c \in CallIds : calls[c].kind = "list" => calls[c].pc # "rejected"

(* C5: once the socket is open, a listLobbies promise resolves exactly once:
   a lobby_list frame arriving while it is pending resolves it with the frame's
   lobbies ([] when absent), the 5 s timer firing while it is pending resolves
   it with []; whichever comes second changes nothing, and the call's
   lobbyList listener is subscribed exactly while the promise is pending. *)
C5_ListResolvesOnce ==
  \A c \in CallIds : calls[c].kind = "list" =>
    /\ calls[c].pc = "waiting" =>
         /\ calls[c].timer
         /\ Count(handlers["lobbyList"], H(c, "onList")) = 1
         /\ \A t \in ListTexts :
              LET r == OnMessage(Cur, t)
              IN /\ r.calls[c].pc = "resolved"
                 /\ r.calls[c].value = Some(IF t.value[1].lobbies = None THEN EmptyList
                                            ELSE t.value[1].lobbies[1])
                 /\ Count(r.handlers["lobbyList"], H(c, "onList")) = 0
         /\ LET r == ListTimeout(Cur, c)
            IN /\ r.calls[c].pc = "resolved"
               /\ r.calls[c].value = Some(EmptyList)
               /\ Count(r.handlers["lobbyList"], H(c, "onList")) = 0
    /\ calls[c].pc = "resolved" =>
         /\ Count(handlers["lobbyList"], H(c, "onList")) = 0
         /\ \A t \in ListTexts :
              LET r == OnMessage(Cur, t)
              IN r.calls[c].pc = "resolved" /\ r.calls[c].value = calls[c].value
         /\ calls[c].timer =>
              LET r == ListTimeout(Cur, c)
              IN r.calls[c].pc = "resolved" /\ r.calls[c].value = calls[c].value
    /\ (c \in last.settled /\ calls[c].pc = "resolved") =>
         /\ last.op \in {"message", "listTimeout"}
         /\ last.op = "message" => last.type = "lobby_list"
         /\ last.op = "listTimeout" => calls[c].value = Some(EmptyList)

\* a list resolved by a frame, and the timer has fired afterwards without effect
C5_Witness ==
  \E c \in CallIds :
    /\ calls[c].kind = "list" /\ calls[c].pc = "resolved"
    /\ calls[c].value = Some(<<[lobbyId |-> "L1"]>>)
    /\ ~calls[c].timer
    /\ last.op = "listTimeout" /\ last.call = c

(* C6: whenever a createLobby promise resolves, isHost() is true and LobbyInfo
   is non-null in the state in which the resolution is observed. *)
C6_CreateResolvedAsHost ==
  \A c \in last.settled :
    (calls[c].kind = "create" /\ calls[c].pc = "resolved") =>
       isHost /\ lobbyInfo # None

C6_Witness ==
  \E c \in last.settled : calls[c].kind = "create" /\ calls[c].pc = "resolved"

(* C7: whenever a joinLobby promise resolves, isHost() = (ownerId of the
   lobby_state snapshot = playerId), and the resolved value carries the
   snapshot's lobbyId and ownerId and its players (keyed by id). *)
C7_JoinResolvedWithSnapshot ==
  /\ \A c \in CallIds : (calls[c].kind = "join" /\ calls[c].pc = "waiting") =>
       \A t \in StateTexts :
         LET m == t.value[1]
             r == OnMessage(Cur, t)
         IN /\ r.calls[c].pc = "resolved"
            /\ r.isHost = (m.ownerId = playerId)
            /\ r.calls[c].value[1].lobbyId = m.lobbyId
            /\ r.calls[c].value[1].ownerId = m.ownerId
            /\ KeyedById(r.calls[c].value[1].players,
                         IF m.players = None THEN <<>> ELSE m.players[1])
  /\ \A c \in last.settled : (calls[c].kind = "join" /\ calls[c].pc = "resolved") =>
       /\ last.op = "message" /\ last.type = "lobby_state"
       /\ isHost = (calls[c].value[1].ownerId = playerId)

\* a join resolved by the snapshot of a lobby this player owns, with two players
C7_Witness ==
  \E c \in last.settled :
    /\ calls[c].kind = "join" /\ calls[c].pc = "resolved"
    /\ isHost
    /\ Len(calls[c].value[1].players) = 2

(* C8: from every state, leaveLobby() returns with LobbyInfo null, isHost false
   and the RemotePlayer set empty, settling no promise; it writes one
   lobby_leave frame if the socket is open and nothing otherwise. *)
C8_LeaveLobbyClears ==
  /\ ENABLED CallLeaveLobby
  /\ last.op = "leaveLobby" =>
       /\ lobbyInfo = None /\ isHost = FALSE /\ players = EmptyObj
       /\ last.settled = {} /\ emitted = <<>>
       /\ IF IsOpen(Cur, ws)
          THEN sent = <<[sock |-> ws, frame |-> [type |-> "lobby_leave"]]>>
          ELSE sent = <<>>

\* leaveLobby while a socket is open and a lobby call is still pending
C8_Witness ==
  /\ last.op = "leaveLobby"
  /\ Len(sent) = 1
  /\ \E c \in CallIds : calls[c].pc = "waiting"

(* C9, as claimed: after state_update frames for one playerId in a row, the
   data stored for that player is the shallow merge of the payloads in arrival
   order, whether or not the player was known when the first frame arrived.
   Fails when the player was known with data of its own (from a snapshot). *)
C9_DataIsMergeOfPayloads ==
  hist # <<>> =>
    /\ Get(players, hist[1].playerId) # None
    /\ IsMergeOf(Get(players, hist[1].playerId)[1].data,
                 [i \in 1..(Len(hist) - 1) |-> OrEmpty(hist[i + 1].data)])

(* C9, amended: ... is the shallow merge, in order, of the data the player had
   when the first frame arrived (none if it was not known) and the payloads. *)
C9_DataIsMergeOntoPrior ==
  hist # <<>> =>
    /\ Get(players, hist[1].playerId) # None
    /\ IsMergeOf(Get(players, hist[1].playerId)[1].data,
                 [i \in 1..Len(hist) |-> OrEmpty(hist[i].data)])

\* two payloads in a row, the second overriding a key of the first, for a
\* player that was known with data
C9_Witness ==
  /\ Len(hist) >= 3
  /\ hist[1].data \notin {None, Some(EmptyObj)}
  /\ \E k \in Keys :
       /\ k \in DOMAIN OrEmpty(hist[2].data) /\ k \in DOMAIN OrEmpty(hist[3].data)
       /\ OrEmpty(hist[2].data)[k] # OrEmpty(hist[3].data)[k]

(* C10: a frame that is not JSON, or whose type is not one of the known tags,
   publishes no event and changes nothing: connected, playerId, LobbyInfo,
   isHost, the RemotePlayer set and the subscriber table stay as they are. *)
C10_BadFramesIgnored ==
  /\ \A t \in BadTexts : OnMessage(Cur, t) = Cur
  /\ (last.op = "message" /\ last.type \in {TypeOf(t) : t \in BadTexts}) =>
       emitted = <<>> /\ sent = <<>> /\ last.settled = {}

\* a bad frame handled while in a lobby with a player and a pending handshake
C10_Witness ==
  /\ last.op = "message" /\ last.type = "(not JSON)"
  /\ lobbyInfo # None /\ players # EmptyObj
  /\ handlers["error"] # <<>>

----------------------------------------------------------------------------
\* the marker of line 26: "lobbyName starting with "PUBLIC_" -> publicly listed"
HasPublicMarker(name) == \E rest \in {"", "Arena", "Den"} : name = "PUBLIC_" \o rest

(* C11: for every createLobby call, isPublic of the lobbyCreated result (and
   of LobbyInfo) is true exactly when the requested lobbyName starts with
   "PUBLIC_".
   Fails: the client copies msg.isPublic of whatever lobby_created frame
   arrives and never looks at the name it asked for. *)
C11_PublicIffMarker ==
  \A c \in last.settled :
    (calls[c].kind = "create" /\ calls[c].pc = "resolved") =>
       /\ calls[c].value[1].isPublic = HasPublicMarker(calls[c].args[1].lobbyName)
       /\ lobbyInfo[1].isPublic = HasPublicMarker(calls[c].args[1].lobbyName)

KickTexts  == {t \in DispatchTexts : TypeOf(t) = "lobby_kicked"}
CloseTexts == {t \in DispatchTexts : TypeOf(t) = "lobby_closed"}

(* C12: a lobby_kicked frame leaves LobbyInfo null, isHost false and the
   RemotePlayer set empty and publishes exactly one lobbyKicked event, with
   the frame's reason, and no lobbyClosed event; a lobby_closed frame resets
   the same and publishes exactly one lobbyClosed and no lobbyKicked event. *)
C12_KickedAndClosedReset ==
  /\ \A t \in KickTexts \cup CloseTexts :
       LET r == OnMessage(Cur, t)
           kicked == {i \in 1..Len(r.emitted) : r.emitted[i].event = "lobbyKicked"}
           closed == {i \in 1..Len(r.emitted) : r.emitted[i].event = "lobbyClosed"}
       IN /\ r.lobbyInfo = None /\ r.isHost = FALSE /\ r.players = EmptyObj
          /\ IF t \in KickTexts
             THEN /\ Cardinality(kicked) = 1 /\ closed = {}
                  /\ \A i \in kicked : r.emitted[i].data = [reason |-> t.value[1].reason]
             ELSE Cardinality(closed) = 1 /\ kicked = {}
  /\ (last.op = "message" /\ last.type = "lobby_kicked") =>
       /\ lobbyInfo = None /\ isHost = FALSE /\ players = EmptyObj
       /\ Published("lobbyKicked") = 1 /\ Published("lobbyClosed") = 0
  /\ (last.op = "message" /\ last.type = "lobby_closed") =>
       /\ lobbyInfo = None /\ isHost = FALSE /\ players = EmptyObj
       /\ Published("lobbyClosed") = 1 /\ Published("lobbyKicked") = 0

\* the owner of a lobby with a player in it, on an open socket: the state a
\* lobby_kicked{reason:"inactive"} frame resets
C12_Witness ==
  /\ lobbyInfo # None /\ isHost /\ players # EmptyObj
  /\ IsOpen(Cur, ws)
  /\ LET r == OnMessage(Cur, Text([type |-> "lobby_kicked", reason |-> "inactive"]))
     IN r.emitted = <<[event |-> "lobbyKicked", data |-> [reason |-> "inactive"]]>>

(* C13: a server 'error' frame that arrives while a createLobby or joinLobby
   handshake is pending rejects that handshake's promise with the error and
   publishes one 'error' event; the frame leaves LobbyInfo and isHost as they
   were (a session without a lobby stays without one), as do the call and
   the handshake it sends. *)
C13_ErrorFrameRejects ==
  /\ \A t \in ErrorTexts :
       LET r   == OnMessage(Cur, t)
           err == [error |-> t.value[1].message]
       IN /\ \A c \in CallIds :
               (calls[c].kind \in {"create", "join"} /\ calls[c].pc = "waiting") =>
                  r.calls[c].pc = "rejected" /\ r.calls[c].value = Some(err)
          /\ r.emitted = <<[event |-> "error", data |-> err]>>
          /\ r.lobbyInfo = lobbyInfo /\ r.isHost = isHost
  /\ \A fresh \in GenIds :
       /\ \A a \in CreateArgs : LET r == createLobby(Cur, fresh, a)
                               IN r.lobbyInfo = lobbyInfo /\ r.isHost = isHost
       /\ \A a \in JoinArgs : LET r == joinLobby(Cur, fresh, a)
                             IN r.lobbyInfo = lobbyInfo /\ r.isHost = isHost
  /\ \A c \in CallIds : calls[c].pc \in {"opening", "micro"} =>
       LET r == Resume(Cur, c) IN r.lobbyInfo = lobbyInfo /\ r.isHost = isHost
  /\ (last.op = "message" /\ last.type = "error") =>
       /\ Published("error") = 1 /\ Len(emitted) = 1
       /\ \A c \in last.settled :
            calls[c].kind \in {"create", "join"} /\ calls[c].pc = "rejected"

\* an error frame has just rejected a pending createLobby of a session that
\* has no lobby
C13_Witness ==
  /\ last.op = "message" /\ last.type = "error"
  /\ \E c \in last.settled : calls[c].kind = "create" /\ calls[c].pc = "rejected"
  /\ lobbyInfo = None /\ ~isHost

(* C14: with two createLobby calls (or two joinLobby calls) in flight, one
   lobby_created (or lobby_state) frame settles every waiting call of that
   kind, so a call is settled by a response that was not sent for its own
   request: a frame answers one request and the witness has two calls settled
   by the same frame. *)
C14_OneResponseSettlesAll ==
  /\ \A t \in HandshakeTexts :
       LET r == OnMessage(Cur, t)
       IN \A c \in CallIds :
            /\ (TypeOf(t) = "lobby_created" /\ calls[c].kind = "create"
                  /\ calls[c].pc = "waiting") =>
                 /\ r.calls[c].pc = "resolved"
                 /\ r.calls[c].value[1].lobbyId = t.value[1].lobbyId
            /\ (TypeOf(t) = "lobby_state" /\ calls[c].kind = "join"
                  /\ calls[c].pc = "waiting") =>
                 /\ r.calls[c].pc = "resolved"
                 /\ r.calls[c].value[1].lobbyId = t.value[1].lobbyId
  /\ (last.op = "message" /\ last.type \in {"lobby_created", "lobby_state", "error"}) =>
       \A c, d \in last.settled : calls[c].value = calls[d].value

\* two createLobby calls resolved by the same lobby_created frame
C14_Witness ==
  /\ last.op = "message" /\ last.type = "lobby_created"
  /\ Cardinality(last.settled) = 2
  /\ \A c \in last.settled : calls[c].kind = "create" /\ calls[c].pc = "resolved"

\* the success and the error listener of a createLobby / joinLobby call
OkListener(c)  == IF calls[c].kind = "create" THEN H(c, "onCreated") ELSE H(c, "onJoined")
ErrListener(c) == IF calls[c].kind = "create" THEN H(c, "onCreateErr") ELSE H(c, "onJoinErr")
OkEvent(c)     == IF calls[c].kind = "create" THEN "lobbyCreated" ELSE "lobbyJoined"

(* C15: a createLobby or joinLobby call that has reached its handshake has
   exactly one success listener and one 'error' listener subscribed while its
   promise is pending and none once it has settled (nor before the
   handshake); a settled promise is not changed by any later frame or
   'error' event. *)
C15_ListenerPairPerCall ==
  \A c \in CallIds : calls[c].kind \in {"create", "join"} =>
    /\ calls[c].pc = "waiting" =>
         /\ Count(handlers[OkEvent(c)], OkListener(c)) = 1
         /\ Count(handlers["error"], ErrListener(c)) = 1
    /\ calls[c].pc # "waiting" =>
         /\ Count(handlers[OkEvent(c)], OkListener(c)) = 0
         /\ Count(handlers["error"], ErrListener(c)) = 0
    /\ \A e \in Events : \A i \in 1..Len(handlers[e]) :
         handlers[e][i].call = c =>
           handlers[e][i] = (IF e = "error" THEN ErrListener(c) ELSE OkListener(c))
    /\ calls[c].pc \in {"resolved", "rejected"} =>
         /\ \A t \in HandshakeTexts : OnMessage(Cur, t).calls[c] = calls[c]
         /\ Emit(Cur, "error", TransportError).calls[c] = calls[c]

\* a resolved createLobby call, and an error frame that arrived afterwards
\* and rejected another call without touching it
C15_Witness ==
  /\ last.op = "message" /\ last.type = "error"
  /\ last.settled # {}
  /\ \E c \in CallIds \ last.settled : calls[c].kind = "create" /\ calls[c].pc = "resolved"

(* C16: when the createLobby / joinLobby promise of _init rejects, _init
   starts the legacy connect() with the roomId it was given and then
   publishes ready{multiplayer:true}; after the fallback the session holds
   exactly one live socket and is in no lobby.
   Fails: after a rejection by a server 'error' frame the lobby socket is
   still open, and connect() opens a second socket without closing it. *)
C16_FallbackToLegacy ==
  /\ boot.path = "lobby" => Pending(Cur, boot.call)
  /\ (boot.path = "fallback" /\ Published("ready") = 1) =>
       /\ roomId = boot.roomId
       /\ ws # 0 /\ socks[ws].kind = "connect"
       /\ \E i \in 1..Len(emitted) :
            emitted[i] = [event |-> "ready", data |-> [multiplayer |-> TRUE]]
       /\ boot.ready = <<TRUE>>
       /\ Cardinality({s \in SockIds : socks[s].rs \in {"CONNECTING", "OPEN"}}) = 1
       /\ lobbyInfo = None

\* nothing is left for the sockets and timers to deliver: no connection
\* attempt or closing handshake is under way, no timer is pending, no
\* continuation is queued; only a frame from the server could still arrive
Quiet ==
  /\ Idle
  /\ \A s \in SockIds : socks[s].rs \in {"OPEN", "CLOSED"} /\ ~socks[s].timer
  /\ \A c \in CallIds : ~calls[c].timer

(* C17: every _init call publishes 'ready' exactly once: at once with
   multiplayer:false when serverUrl is absent, otherwise with
   multiplayer:true by the time the sockets and timers have delivered all
   they have, whichever path is taken, even if the server never answers the
   handshake or the socket closes during it.
   Fails: on the create and join paths 'ready' waits for the promise of the
   lobby call, which nothing settles when the server stays silent. *)
C17_ReadyExactlyOnce ==
  /\ Len(boot.ready) <= 1
  /\ boot.path = "single" => boot.ready = <<FALSE>>
  /\ boot.path \in {"legacy", "then", "fallback"} => boot.ready = <<TRUE>>
  /\ (boot.path # "none" /\ Quiet) => Len(boot.ready) = 1

(* C18: _init with an absent serverUrl publishes ready{multiplayer:false} and
   nothing else, creates no socket, sends no frame and leaves connected,
   playerId, LobbyInfo, isHost and the RemotePlayer set (and the calls and
   subscribers) as they were, whatever lobbyContext it is given. *)
C18_SingleplayerInit ==
  /\ \A fresh \in GenIds, room \in Rooms, u \in Users, g \in GameIds, ctx \in LobbyCtxs :
       LET r == init(Cur, fresh, FALSE, room, u, g, ctx)
       IN /\ r.emitted = <<[event |-> "ready", data |-> [multiplayer |-> FALSE]]>>
          /\ r.socks = socks /\ r.ws = ws /\ r.sent = <<>> /\ ~r.overflow
          /\ r.connected = connected /\ r.playerId = playerId
          /\ r.lobbyInfo = lobbyInfo /\ r.isHost = isHost /\ r.players = players
          /\ r.calls = calls /\ r.handlers = handlers
  /\ (last.op = "init" /\ ~last.url) =>
       /\ emitted = <<[event |-> "ready", data |-> [multiplayer |-> FALSE]]>>
       /\ sent = <<>> /\ last.settled = {}
       /\ boot.path = "single" /\ boot.ready = <<FALSE>>

\* _init without a serverUrl but with a createLobby context, called on a
\* session that is connected and in a lobby with a player
C18_Witness ==
  /\ last.op = "init" /\ ~last.url /\ last.ctx = "create"
  /\ connected /\ lobbyInfo # None /\ players # EmptyObj
  /\ playerId # Null

\* the session is in a legacy room: the socket connect() created is the
\* current one and has opened (the join frame has been sent on it)
InLegacyRoom == ws # 0 /\ socks[ws].kind = "connect" /\ socks[ws].rs = "OPEN"

(* C19: in no reachable state is the session both in a lobby (LobbyInfo
   non-null) and in a legacy room entered through connect().
   Fails: connect() leaves _lobbyInfo as it is, and lobby_created /
   lobby_state are handled on a legacy socket as on any other. *)
C19_LobbyXorLegacyRoom == ~(lobbyInfo # None /\ InLegacyRoom)

(* C20: right after the session becomes Disconnected or Idle (disconnect(),
   an unexpected close of an open socket, leaveLobby(), lobby_left,
   lobby_kicked, lobby_closed) getPlayers() is empty; after disconnect() the
   socket reference is cleared, connected is false, LobbyInfo is null and
   isHost is false as well.
   Fails: disconnect() and the close handlers never assign _players. *)
C20_NoPlayersOnceIdle ==
  /\ (\/ last.op \in {"disconnect", "leaveLobby"}
      \/ last.op \in {"close", "fail"} /\ last.rs = "OPEN"
      \/ last.op = "message" /\ last.type \in {"lobby_left", "lobby_kicked", "lobby_closed"})
       => getPlayers = <<>>
  /\ last.op = "disconnect" =>
       ws = 0 /\ connected = FALSE /\ lobbyInfo = None /\ isHost = FALSE

----------------------------------------------------------------------------
\* the frames the send operations hand to _send
OutFrames ==
       {[type |-> "state_update", playerId |-> playerId, data |-> d] : d \in TinyData}
  \cup {[type |-> "custom", playerId |-> playerId, event |-> "ping", data |-> d] : d \in TinyData}
  \cup {[type |-> "lobby_kick", targetId |-> t] : t \in PIds}
  \cup {[type |-> "lobby_close"], [type |-> "lobby_leave"]}

\* the types of the frames an operation or callback writes
WritesOf(op) ==
  CASE op = "updateState"   -> {"state_update"}
    [] op = "sendMessage"   -> {"custom"}
    [] op = "kickFromLobby" -> {"lobby_kick"}
    [] op = "closeLobby"    -> {"lobby_close"}
    [] op = "leaveLobby"    -> {"lobby_leave"}
    [] op = "open"          -> {"join", "lobby_create", "lobby_join", "lobby_list"}
    [] op = "microtasks"    -> {"lobby_create", "lobby_join", "lobby_list"}
    [] OTHER                -> {}

(* C21: a send operation (updateState, sendMessage, leaveLobby, kickFromLobby,
   closeLobby, the send of a handshake) invoked while the socket is absent or
   not open writes no frame and publishes no event, and keeps nothing for
   later: _send leaves the state as it was, and every frame a step writes is
   one of that step's own operation, written to a socket that is open (a
   socket that opens later carries only the frames of its open handler). *)
C21_SendsDroppedUnlessOpen ==
  /\ ~IsOpen(Cur, ws) =>
       /\ \A msg \in OutFrames : Send(Cur, msg) = Cur
       /\ \A d \in TinyData : updateState(Cur, d) = Cur /\ sendMessage(Cur, "ping", d) = Cur
       /\ \A t \in PIds : kickFromLobby(Cur, t) = Cur
       /\ closeLobby(Cur) = Cur
       /\ leaveLobby(Cur).sent = <<>> /\ leaveLobby(Cur).emitted = <<>>
       /\ \A c \in CallIds : calls[c].pc = "micro" => Resume(Cur, c).sent = <<>>
  /\ last.op \in {"updateState", "sendMessage", "kickFromLobby", "closeLobby", "leaveLobby"} =>
       /\ emitted = <<>> /\ last.settled = {}
       /\ Len(sent) = (IF IsOpen(Cur, ws) THEN 1 ELSE 0)
  /\ \A i \in 1..Len(sent) :
       /\ sent[i].frame.type \in WritesOf(last.op)
       /\ sent[i].sock # 0 /\ socks[sent[i].sock].rs = "OPEN"

\* updateState called while the current socket is still connecting: nothing
\* is written
C21_Witness ==
  /\ last.op = "updateState"
  /\ ws # 0 /\ socks[ws].rs = "CONNECTING"
  /\ sent = <<>>

(* C22: when the 8 s timer of an open attempt fires before the 'open' event,
   the open promise rejects with the timeout error, the half-open socket is
   closed, and the session is left not connected with no current socket; a
   late 'error' from that socket (a late 'open' cannot come once close() was
   called) neither marks the session connected nor installs the socket.
   Fails: the session stays connected, with a current socket, when another
   socket opened in the meantime: that of an overlapping open attempt, or one
   connect() left open. *)
C22_OpenTimeoutLeavesDisconnected ==
  /\ \A s \in SockIds : socks[s].timer =>
       LET c == socks[s].owner
           r == OpenTimeout(Cur, s)
           e == OnError([r EXCEPT !.socks[s].rs = "CLOSED"], s)
       IN /\ calls[c].pc = "opening"
          /\ r.calls[c].pc = "rejected" /\ r.calls[c].value = Some(TimeoutError)
          /\ r.socks[s].rs = "CLOSING"
          /\ ~r.connected /\ r.ws = 0
          /\ ~e.connected /\ e.ws = 0
  /\ last.op = "openTimeout" => ~connected /\ ws = 0

(* C23: every transport failure (the 8 s connect timeout, a connection
   refused before it opened, a drop of an open connection) publishes a
   'disconnected' or an 'error' event and leaves connected false, LobbyInfo
   null, isHost false and the RemotePlayer set empty.
   Fails: the timeout and a refusal before 'open' of an _openWS socket only
   reject the open promise, publishing nothing and resetting nothing; no
   handler empties _players; connect's handlers keep _lobbyInfo and _isHost. *)
C23_TransportFailureResets ==
  (\/ last.op = "openTimeout"
   \/ last.op = "fail" /\ last.rs \in {"CONNECTING", "OPEN"}
   \/ last.op = "close" /\ last.rs = "OPEN") =>
     /\ Published("disconnected") + Published("error") >= 1
     /\ connected = FALSE /\ lobbyInfo = None /\ isHost = FALSE
     /\ players = EmptyObj

\* the event a frame is published as
EventOf(text) ==
  CASE TypeOf(text) = "lobby_created" -> "lobbyCreated"
    [] TypeOf(text) = "lobby_state"   -> "lobbyJoined"
    [] TypeOf(text) = "lobby_list"    -> "lobbyList"
    [] OTHER                          -> "error"

\* the state without the handlers of the game
Strip(st) ==
  [st EXCEPT !.handlers = [e \in Events |-> SelectSeq(st.handlers[e], LAMBDA h : h.call # 0)],
             !.ran = SelectSeq(st.ran, LAMBDA h : h.call # 0)]

(* C24: a publish invokes every handler subscribed to the event when it
   starts, once each, in subscription order, whatever the handlers do
   (return, throw, unsubscribe, subscribe); no exception reaches the
   publisher, and the outcome of the frame (session state, promises, events,
   the SDK's own listeners) is the one it has without the game's handlers. *)
C24_EveryHandlerRuns ==
  /\ \A t \in HandshakeTexts :
       LET r == OnMessage(Cur, t)
       IN /\ r.ran = handlers[EventOf(t)]
          /\ ~r.thrown
          /\ Strip(r) = OnMessage(Strip(Cur), t)
  /\ LET r == Emit(Cur, "error", TransportError)
     IN r.ran = handlers["error"] /\ ~r.thrown
        /\ Strip(r) = Emit(Strip(Cur), "error", TransportError)
  /\ last.op = "message" =>
       \A c \in CallIds :
         (c \in last.settled) <=> (\E i \in 1..Len(last.ran) : last.ran[i].call = c)

\* a lobby_state frame published to a throwing handler of the game and then
\* to the listener of the joinLobby call, which resolved
C24_Witness ==
  /\ last.op = "message" /\ last.type = "lobby_state"
  /\ last.ran = <<H(0, "userThrows"), H(1, "onJoined")>>
  /\ calls[1].pc = "resolved"

(* C25: once playerId has been assigned (by the first createLobby, joinLobby
   or connect call, _init's included) no step changes it: no later
   createLobby, joinLobby or connect call, whatever id it draws, no
   disconnect(), close or failure of a socket, and not the fallback to the
   legacy room. *)
C25_PlayerIdStable == [][playerId # Null => playerId' = playerId]_vars

\* the connect() of _init's fallback has run on a session whose id an
\* earlier call had assigned
C25_Witness ==
  /\ boot.path = "fallback"
  /\ playerId = "p_new"
  /\ ws # 0 /\ socks[ws].kind = "connect"

\* the outcomes of the three calls that open the connection, made now
OpenRequests ==
  {createLobby(Cur, fresh, a) : fresh \in GenIds, a \in CreateArgs}
    \cup {joinLobby(Cur, fresh, a) : fresh \in GenIds, a \in JoinArgs}
    \cup {listLobbies(Cur, a) : a \in ListArgs}

(* C26: an open request made while the current socket is open resolves with
   that socket (the caller continues on it), creates no socket and closes
   none; one made while the current socket exists but is not open closes
   that socket, drops it as the current one and creates a new socket, the
   other sockets staying as they are. *)
C26_OpenReusesOrReplaces ==
  /\ CanCall =>
       \A r \in OpenRequests :
         LET c == NumCalls(Cur) + 1
         IN IF IsOpen(Cur, ws)
            THEN /\ r.ws = ws /\ r.socks = socks /\ ~r.overflow
                 /\ r.calls[c].pc = "micro"
                 /\ \A i \in 1..Len(Resume(r, c).sent) : Resume(r, c).sent[i].sock = ws
                 /\ Len(Resume(r, c).sent) = 1
            ELSE /\ r.ws = 0
                 /\ ws # 0 => r.socks[ws].rs \in {"CLOSING", "CLOSED"}
                 /\ \A s \in SockIds \ {ws} : socks[s].kind # "none" => r.socks[s] = socks[s]
                 /\ ~r.overflow =>
                      /\ NumSocks(r) = NumSocks(Cur) + 1
                      /\ r.socks[NewestSock(r)].rs = "CONNECTING"
                      /\ r.socks[NewestSock(r)].owner = c
                      /\ r.calls[c].pc = "opening"
  /\ last.op \in {"createLobby", "joinLobby", "listLobbies"} =>
       LET c == NumCalls(Cur)
       IN IF calls[c].pc = "micro"
          THEN IsOpen(Cur, ws)
          ELSE /\ calls[c].pc = "opening" /\ ws = 0
               /\ Cardinality({s \in SockIds : socks[s].owner = c
                                 /\ socks[s].rs = "CONNECTING" /\ socks[s].timer}) = 1

\* joinLobby called while the socket of connect() was still connecting: that
\* socket is closing, a new one is connecting
C26_Witness ==
  /\ last.op = "joinLobby"
  /\ ws = 0
  /\ \E s, n \in SockIds :
       /\ socks[s].kind = "connect" /\ socks[s].rs = "CLOSING" /\ ~socks[s].opened
       /\ socks[n].kind = "openWS" /\ socks[n].rs = "CONNECTING"

(* C27: leaveLobby() called while a joinLobby promise is outstanding settles
   no promise and removes no listener; a lobby_state frame that arrives
   afterwards resolves the promise and puts the session back into a lobby:
   LobbyInfo is that of the frame, the RemotePlayer set that of its snapshot. *)
C27_LeaveKeepsPendingJoin ==
  /\ \A c \in CallIds : (calls[c].kind = "join" /\ Pending(Cur, c)) =>
       LET r == leaveLobby(Cur)
       IN /\ r.calls = calls /\ r.handlers = handlers
          /\ r.emitted = <<>> /\ r.ran = <<>>
          /\ calls[c].pc = "waiting" =>
               \A t \in SendTexts :
                 LET q == OnMessage(r, t)
                     m == t.value[1]
                 IN /\ q.calls[c].pc = "resolved"
                    /\ q.lobbyInfo # None /\ q.lobbyInfo[1].lobbyId = m.lobbyId
                    /\ KeyedById(ObjectValues(q.players), OrEmpty(m.players))
                    /\ q.calls[c].value[1].players = ObjectValues(q.players)
  /\ last.op = "leaveLobby" =>
       /\ last.settled = {} /\ last.ran = <<>>
       /\ \A c \in CallIds : calls[c].kind = "join" =>
            /\ calls[c].pc = "waiting" =>
                 /\ Count(handlers["lobbyJoined"], H(c, "onJoined")) = 1
                 /\ Count(handlers["error"], H(c, "onJoinErr")) = 1

\* leaveLobby has just run on an open socket while a joinLobby call waits for
\* its snapshot, its listeners subscribed
C27_Witness ==
  /\ last.op = "leaveLobby" /\ Len(sent) = 1
  /\ lobbyInfo = None
  /\ \E c \in CallIds :
       /\ calls[c].kind = "join" /\ calls[c].pc = "waiting"
       /\ Count(handlers["lobbyJoined"], H(c, "onJoined")) = 1

\* Object.keys(obj)
ObjectKeys(obj) == {obj[i].key : i \in 1..Len(obj)}

JoinTypes     == {"lobby_player_joined", "player_joined"}
SnapshotTypes == {"lobby_state", "room_state"}

(* C28, as claimed: a frame adds an entry to the RemotePlayer set only if it
   is a join notification or a membership snapshot; a state_update frame
   never adds one.
   Fails: state_update for a player that is not in the set inserts it. *)
C28_OnlyJoinsInsert ==
  \A t \in DispatchTexts :
    LET r == OnMessage(Cur, t)
    IN /\ ObjectKeys(r.players) \ ObjectKeys(players) # {} =>
            TypeOf(t) \in JoinTypes \cup SnapshotTypes
       /\ TypeOf(t) = "state_update" => ObjectKeys(r.players) = ObjectKeys(players)

(* C28, amended: a frame adds an entry only if it is a join notification, a
   membership snapshot, or a state_update for a player that is not in the
   set: that one inserts the player with the frame's username ('Player' when
   absent) and data ({} when absent); a state_update for a player in the set
   only merges the frame's data into the entry's; either way the other
   entries stay as they are. *)
C28_JoinsAndFirstUpdatesInsert ==
  \A t \in DispatchTexts :
    LET r == OnMessage(Cur, t)
        m == t.value[1]
    IN /\ ObjectKeys(r.players) \ ObjectKeys(players) # {} =>
            TypeOf(t) \in JoinTypes \cup SnapshotTypes \cup {"state_update"}
       /\ TypeOf(t) = "state_update" =>
            /\ ObjectKeys(r.players) = ObjectKeys(players) \cup {m.playerId}
            /\ \A id \in ObjectKeys(players) \ {m.playerId} :
                 Get(r.players, id) = Get(players, id)
            /\ IF HasKey(players, m.playerId)
               THEN LET old == Get(players, m.playerId)[1]
                        new == Get(r.players, m.playerId)[1]
                    IN /\ new.id = old.id /\ new.username = old.username
                       /\ IsMergeOf(new.data, <<old.data, OrEmpty(m.data)>>)
               ELSE Get(r.players, m.playerId) =
                      Some([id |-> m.playerId,
                            username |-> IF m.username = Undef THEN "Player" ELSE m.username,
                            data |-> OrEmpty(m.data)])

\* a state_update frame has just inserted a player: no join notification or
\* snapshot of these runs names a player 'Player'
C28_Witness ==
  /\ last.op = "message" /\ last.type = "state_update"
  /\ \E i \in 1..Len(players) :
       players[i].val.username = "Player" /\ players[i].val.data # EmptyObj

\* the state st after one frame was written to the current socket
Wrote(st, msg) == [st EXCEPT !.sent = <<[sock |-> st.ws, frame |-> msg]>>]

(* C29: kickFromLobby(targetId) and closeLobby() check no authority locally:
   whenever the socket is open they write their lobby_kick / lobby_close
   frame, whether or not isHost() is true or LobbyInfo is non-null, and they
   change nothing else: LobbyInfo, isHost and the RemotePlayer set stay as
   they are until a frame of the server arrives. *)
C29_KickCloseUnchecked ==
  /\ \A t \in PIds :
       kickFromLobby(Cur, t) =
         (IF IsOpen(Cur, ws) THEN Wrote(Cur, [type |-> "lobby_kick", targetId |-> t]) ELSE Cur)
  /\ closeLobby(Cur) =
       (IF IsOpen(Cur, ws) THEN Wrote(Cur, [type |-> "lobby_close"]) ELSE Cur)
  /\ last.op = "kickFromLobby" =>
       /\ emitted = <<>> /\ last.settled = {}
       /\ sent = IF IsOpen(Cur, ws)
                 THEN <<[sock |-> ws, frame |-> [type |-> "lobby_kick", targetId |-> last.target]]>>
                 ELSE <<>>
  /\ last.op = "closeLobby" =>
       /\ emitted = <<>> /\ last.settled = {}
       /\ sent = IF IsOpen(Cur, ws)
                 THEN <<[sock |-> ws, frame |-> [type |-> "lobby_close"]]>>
                 ELSE <<>>

\* a session that is in no lobby and is not a host has just written a
\* lobby_kick frame
C29_Witness ==
  /\ last.op = "kickFromLobby"
  /\ ~isHost /\ lobbyInfo = None
  /\ Len(sent) = 1

\* no two records of the list have the same id
DistinctIds(list) ==
  \A i, j \in 1..Len(list) : list[i].id = list[j].id => i = j

(* C30: after a lobby_state frame the RemotePlayer set holds exactly the
   players of the frame's snapshot, keyed by id (none when the frame has no
   list), whatever it held before; LobbyInfo holds the frame's lobbyId,
   lobbyName, isPublic, ownerId and maxPlayers; one lobbyJoined event is
   published, with the frame's lobbyId, lobbyName and ownerId and with the
   players of the set: the snapshot's list itself when its ids are distinct. *)
C30_SnapshotReplaces ==
  /\ \A t \in StateTexts :
       LET m    == t.value[1]
           list == OrEmpty(m.players)
           r    == OnMessage(Cur, t)
           ev   == {i \in 1..Len(r.emitted) : r.emitted[i].event = "lobbyJoined"}
       IN /\ KeyedById(ObjectValues(r.players), list)
          /\ \A i \in 1..Len(r.players) : r.players[i].key = r.players[i].val.id
          /\ r.lobbyInfo = Some([lobbyId |-> m.lobbyId, lobbyName |-> m.lobbyName,
                                 isPublic |-> m.isPublic, ownerId |-> m.ownerId,
                                 maxPlayers |-> m.maxPlayers])
          /\ Cardinality(ev) = 1
          /\ \A i \in ev :
               /\ r.emitted[i].data = [lobbyId |-> m.lobbyId, lobbyName |-> m.lobbyName,
                                       ownerId |-> m.ownerId,
                                       players |-> ObjectValues(r.players)]
               /\ DistinctIds(list) => r.emitted[i].data.players = list
  /\ (last.op = "message" /\ last.type = "lobby_state") =>
       /\ lobbyInfo # None
       /\ Published("lobbyJoined") = 1
       /\ \A i \in 1..Len(emitted) : emitted[i].event = "lobbyJoined" =>
            /\ emitted[i].data.players = getPlayers
            /\ emitted[i].data.lobbyId = lobbyInfo[1].lobbyId
            /\ emitted[i].data.ownerId = lobbyInfo[1].ownerId

\* the snapshot of a lobby of two players owned by another player has just
\* been handled
C30_Witness ==
  /\ last.op = "message" /\ last.type = "lobby_state"
  /\ getPlayers = <<Ann, Me>>
  /\ lobbyInfo # None /\ OwnerOf(lobbyInfo[1]) = "p_ann" /\ ~isHost
  /\ emitted = <<[event |-> "lobbyJoined",
                  data |-> [lobbyId |-> lobbyInfo[1].lobbyId,
                            lobbyName |-> lobbyInfo[1].lobbyName,
                            ownerId |-> "p_ann", players |-> <<Ann, Me>>]]>>

(* C31: a lobby_player_joined frame stores the player, with empty data, in
   the RemotePlayer set and publishes one playerJoined event; a
   lobby_player_left frame removes the player and publishes one playerLeft
   event; the other entries of the set, LobbyInfo, isHost, connected,
   playerId, the promises and the subscribers stay as they are, and a
   lobby_player_left for an id that is not in the set leaves the set as it is. *)
C31_MemberFramesTouchOnlyPlayers ==
  /\ \A t \in DispatchTexts :
       TypeOf(t) \in {"lobby_player_joined", "lobby_player_left"} =>
         LET m == t.value[1]
             r == OnMessage(Cur, t)
         IN /\ r.lobbyInfo = lobbyInfo /\ r.isHost = isHost
            /\ r.connected = connected /\ r.playerId = playerId
            /\ r.calls = calls /\ r.handlers = handlers
            /\ r.ws = ws /\ r.socks = socks /\ r.sent = <<>>
            /\ \A id \in PIds \ {m.playerId} : Get(r.players, id) = Get(players, id)
            /\ IF m.type = "lobby_player_joined"
               THEN /\ ObjectKeys(r.players) = ObjectKeys(players) \cup {m.playerId}
                    /\ Get(r.players, m.playerId) =
                         Some([id |-> m.playerId, username |-> m.username, data |-> EmptyObj])
                    /\ r.emitted = <<[event |-> "playerJoined",
                                      data |-> [id |-> m.playerId, username |-> m.username]]>>
               ELSE /\ ObjectKeys(r.players) = ObjectKeys(players) \ {m.playerId}
                    /\ ~HasKey(players, m.playerId) => r.players = players
                    /\ Len(r.emitted) = 1 /\ r.emitted[1].event = "playerLeft"
                    /\ r.emitted[1].data.id = m.playerId
  /\ (last.op = "message" /\ last.type \in {"lobby_player_joined", "lobby_player_left"}) =>
       /\ Len(emitted) = 1 /\ last.settled = {} /\ sent = <<>>
       /\ emitted[1].event = (IF last.type = "lobby_player_joined"
                              THEN "playerJoined" ELSE "playerLeft")

\* a player has just left the lobby this session owns, another one stays
C31_Witness ==
  /\ last.op = "message" /\ last.type = "lobby_player_left"
  /\ lobbyInfo # None /\ isHost /\ connected
  /\ Len(players) = 1
  /\ emitted[1].data.username # Undef

(* C32: every socket connect() created writes, when it opens, exactly one
   'join' frame, on that socket, with the session's roomId, playerId and
   username, also when connect() was called again, or an open request
   replaced the current socket, before its 'open' event.
   Fails: onopen writes through _send, which uses _ws, the current socket,
   and not the socket that opened: after a second connect() the first
   socket's join is dropped (the second still connecting) or written to the
   second socket (already open). *)
C32_JoinOnOwnSocket ==
  \A s \in SockIds : (socks[s].kind = "connect" /\ socks[s].rs = "CONNECTING") =>
    LET r == OnOpen([Cur EXCEPT !.socks[s].rs = "OPEN"], s)
    IN r.sent = <<[sock |-> s,
                   frame |-> [type |-> "join",
                              gameId |-> IF gameId = Null THEN "unknown" ELSE gameId,
                              roomId |-> roomId, playerId |-> playerId,
                              username |-> username]]>>

\* the request frame of a createLobby / joinLobby call
RequestType(c) == IF calls[c].kind = "create" THEN "lobby_create" ELSE "lobby_join"

\* r is the state after call c resumed from its open request: its listeners
\* are subscribed and it has written its one request frame to socket s
Requested(r, c, s) ==
  /\ Count(r.handlers[OkEvent(c)], OkListener(c)) = 1
  /\ Count(r.handlers["error"], ErrListener(c)) = 1
  /\ r.calls[c].pc = "waiting"
  /\ Len(r.sent) = 1
  /\ r.sent[1].sock = s /\ r.socks[s].rs = "OPEN"
  /\ r.sent[1].frame.type = RequestType(c)
  /\ r.sent[1].frame.playerId = playerId

(* C33: a createLobby / joinLobby call that resumes after its open request,
   in the 'open' handler of its socket or at the end of the calling task
   when the socket was open already, subscribes its success and error
   listeners and writes exactly one lobby_create / lobby_join frame, with
   the session's playerId, to the open socket; every such frame a step
   writes goes to an open socket and carries the session's playerId.
   Fails: a call made on an open socket resumes at the end of the task; if
   disconnect() ran in between, the frame is dropped and the call waits,
   listeners subscribed, for the answer to a request that was never written. *)
C33_OneRequestPerCall ==
  /\ \A c \in CallIds : calls[c].kind \in {"create", "join"} =>
       /\ calls[c].pc = "micro" => Requested(Resume(Cur, c), c, ws)
       /\ calls[c].pc = "opening" =>
            \A s \in SockIds : (socks[s].owner = c /\ socks[s].rs = "CONNECTING") =>
              Requested(OnOpen([Cur EXCEPT !.socks[s].rs = "OPEN"], s), c, s)
  /\ \A i \in 1..Len(sent) : sent[i].frame.type \in {"lobby_create", "lobby_join"} =>
       /\ sent[i].frame.playerId = playerId
       /\ socks[sent[i].sock].rs = "OPEN"

(* C34: in every reachable state isConnected() is true exactly when the
   session's current socket exists and is open.
   Fails: connect() makes a connecting socket the current one and leaves
   _connected as it was; the close handlers do not look at which socket
   closed, so the close of a replaced socket marks an open session
   disconnected (and clears LobbyInfo). *)
C34_ConnectedIffCurrentOpen == connected <=> IsOpen(Cur, ws)

(* C35: in every reachable state isHost() true implies LobbyInfo is
   non-null.
   Fails: lobby_owner_changed guards the write of LobbyInfo.ownerId with
   LobbyInfo, and then assigns isHost without that guard. *)
C35_HostHasLobby == isHost => lobbyInfo # None

(* C36: every createLobby or joinLobby promise eventually settles under
   fair delivery of socket events and timers: once every socket has closed
   and no timer or continuation is left to run, no such promise is pending
   and none of its listeners is subscribed.
   Fails: the close handler of _openWS only clears the session and
   publishes 'disconnected'; a call that wrote its request and waits for
   the answer has no timer and hears nothing of the close. *)
C36_RequestsSettle ==
  (Quiet /\ \A s \in SockIds : socks[s].rs = "CLOSED") =>
    \A c \in CallIds : calls[c].kind \in {"create", "join"} =>
      /\ ~Pending(Cur, c)
      /\ Count(handlers[OkEvent(c)], OkListener(c)) = 0
      /\ Count(handlers["error"], ErrListener(c)) = 0

(* C37: handling of an inbound frame is atomic with respect to the session
   state: the step that handles a frame either publishes the frame's event
   or leaves LobbyInfo, isHost and the RemotePlayer set exactly as before.
   Fails: lobby_state and room_state empty the RemotePlayer set and refill
   it before anything else; when the refill throws, the catch around the
   dispatcher swallows the error and the emptied or half-filled set stays,
   with no event. *)
C37_FramesAreAtomic ==
  [][last'.op = "message" =>
       \/ emitted' # <<>>
       \/ (players' = players /\ lobbyInfo' = lobbyInfo /\ isHost' = isHost)]_vars

====
